---- MODULE Spec2Model ----
(***************************************************************************)
(* MarkdownToRender: the two renderers of the repository,                  *)
(*   src/src/markdownrenderer.js  (extension based, called B below) and    *)
(*   src/src/markdowntorender.js  (AST based, called A below).             *)
(*                                                                         *)
(* Text (Markdown source and HTML alike) is a sequence of one-character    *)
(* strings.  A few multi-character strings are used as atoms where the     *)
(* code never looks inside them: an HTML tag ("<p>"), an HTML entity       *)
(* ("&lt;"), the code fence (Fence) and a language tag ("python").          *)
(***************************************************************************)
EXTENDS Integers, Sequences, FiniteSets, TLC

(***************************************************************************)
(* Bounds of the model.                                                    *)
(***************************************************************************)
MaxMathLen == 5        \* longest text of the math specifications
MaxInstances == 2      \* renderer instances constructed in one run
MaxColumns == 2        \* columns of a table
MaxTaskLines == 2      \* task lines of one document
MaxDiagrams == 2       \* diagram blocks of one document
MaxRenderUses == 3     \* registrations that renders add to the Markdown engine
MaxUrlLen == 3         \* characters of the url of a video link
MaxExpressions == 2    \* records of the expression list of one substitution pass
MaxCodeBlocks == 2     \* code blocks of one annotated document
MaxTildeLen == 5       \* longest text of the strikethrough specification
MaxSpanLen == 5        \* longest input of the delimiter rules

(***************************************************************************)
(* Text helpers (String.prototype methods and the regular-expression       *)
(* character classes the code uses).                                       *)
(***************************************************************************)
Min(a, b) == IF a <= b THEN a ELSE b
Max(a, b) == IF a >= b THEN a ELSE b

\* the JavaScript class \s, as far as the model's alphabets go
IsSpace(c) == c \in {" ", "\n", "\t"}

\* s.substring(i-1, j) with 1-based inclusive bounds, clamped like substring
Sub(s, i, j) == SubSeq(s, Max(i, 1), Min(j, Len(s)))

\* s.slice(i-1): the text from position i on
From(s, i) == SubSeq(s, i, Len(s))

\* src.startsWith(p), with the match starting at position i
StartsAt(s, i, p) ==
    /\ i >= 1
    /\ i + Len(p) - 1 <= Len(s)
    /\ SubSeq(s, i, i + Len(p) - 1) = p

StartsWith(s, p) == StartsAt(s, 1, p)

\* s.indexOf(p) as a 1-based position; 0 when p does not occur (JavaScript: -1)
RECURSIVE IndexFrom(_, _, _)
IndexFrom(s, p, i) ==
    IF i > Len(s) - Len(p) + 1 THEN 0
    ELSE IF StartsAt(s, i, p) THEN i
    ELSE IndexFrom(s, p, i + 1)

IndexOf(s, p) == IndexFrom(s, p, 1)

\* s.includes(p)
Includes(s, p) == IndexOf(s, p) # 0

\* the number of leading characters of s, from position i, that satisfy the
\* class test (a greedy  class*  of a regular expression)
RECURSIVE SpaceRun(_, _)
SpaceRun(s, i) ==
    IF i <= Len(s) /\ IsSpace(s[i]) THEN 1 + SpaceRun(s, i + 1) ELSE 0

\* String.prototype.trim
TrimStart(s) == From(s, SpaceRun(s, 1) + 1)

RECURSIVE TrimEnd(_)
TrimEnd(s) ==
    IF s # <<>> /\ IsSpace(s[Len(s)]) THEN TrimEnd(SubSeq(s, 1, Len(s) - 1)) ELSE s

Trim(s) == TrimEnd(TrimStart(s))

\* all texts over an alphabet up to a length
RECURSIVE TextsOfLen(_, _)
TextsOfLen(alphabet, n) ==
    IF n = 0 THEN {<<>>}
    ELSE {Append(t, c) : t \in TextsOfLen(alphabet, n - 1), c \in alphabet}

TextsUpTo(alphabet, n) == UNION {TextsOfLen(alphabet, k) : k \in 0..n}

\* the concatenation of a sequence of texts
RECURSIVE Concat(_)
Concat(ss) == IF ss = <<>> THEN <<>> ELSE Head(ss) \o Concat(Tail(ss))

\* html escaping as both renderers' dependencies and customRenderer.code do it
EscapeChar(c) ==
    CASE c = "&" -> "&amp;"
      [] c = "<" -> "&lt;"
      [] c = ">" -> "&gt;"
      [] c = "\"" -> "&quot;"
      [] c = "'" -> "&#039;"
      [] OTHER -> c

EscapeHtml(s) == [k \in 1..Len(s) |-> EscapeChar(s[k])]

\* the length of the longest run of characters outside `stop`, from position i
\* (a greedy negated class  [^...]*  of a regular expression)
RECURSIVE RunOutside(_, _, _)
RunOutside(s, i, stop) ==
    IF i <= Len(s) /\ s[i] \notin stop THEN 1 + RunOutside(s, i + 1, stop) ELSE 0

RECURSIVE RunInside(_, _, _)
RunInside(s, i, class) ==
    IF i <= Len(s) /\ s[i] \in class THEN 1 + RunInside(s, i + 1, class) ELSE 0

(***************************************************************************)
(* The collaborators.  KaTeX returns markup that carries the TeX source    *)
(* (in its annotation element) or throws; Prism returns markup around the  *)
(* escaped code or throws.  `faults` names the calls that throw.           *)
(***************************************************************************)
KatexThrows(displayMode, faults) ==
    (IF displayMode THEN "katexDisplay" ELSE "katexInline") \in faults

\* katex.renderToString(content, {displayMode, throwOnError: false})
KatexMarkup(content, displayMode) ==
    <<IF displayMode THEN "<katex-display>" ELSE "<katex>">>
        \o EscapeHtml(content) \o <<"</katex>">>

\* Prism.highlight(code, Prism.languages[lang], lang)
PrismMarkup(code, lang) ==
    <<"<span class=\"token\">">> \o EscapeHtml(code) \o <<"</span>">>

\* String.prototype.toLowerCase on a language tag
ToLowerCase(lang) ==
    CASE lang = "Mermaid" -> "mermaid"
      [] lang = "MERMAID" -> "mermaid"
      [] lang = "Python" -> "python"
      [] lang = "JS" -> "js"
      [] OTHER -> lang

\* the value a call returns, or the exception it throws
Returned(html) == [thrown |-> FALSE, val |-> html]
Thrown(message) == [thrown |-> TRUE, val |-> message]

(***************************************************************************)
(* markdownrenderer.js (B): the pre-processor.                             *)
(***************************************************************************)
ListMarkers == {"-", "*", "+"}
CheckboxLetters == {" ", "x", "X"}

\* One match of /^([\s]*)[-*+](\s*)\[([ xX])\](\s*)/m starting at position i
\* (a line start): its length, 0 when there is no match there.  g1 is the
\* leading white space, box the position of the checkbox letter.
TaskPrefixAt(s, i) ==
    LET g1  == SpaceRun(s, i)
        m   == i + g1
        g2  == SpaceRun(s, m + 1)
        lb  == m + 1 + g2
        g4  == SpaceRun(s, lb + 3)
        ok  == /\ m <= Len(s) /\ s[m] \in ListMarkers
               /\ lb + 2 <= Len(s)
               /\ s[lb] = "[" /\ s[lb + 1] \in CheckboxLetters /\ s[lb + 2] = "]"
    IN  IF ok THEN [len |-> g1 + 1 + g2 + 3 + g4, lead |-> g1, box |-> lb + 1]
        ELSE [len |-> 0, lead |-> 0, box |-> 0]

IsLineStart(s, i) == i = 1 \/ s[i - 1] = "\n"

\* markdown.replace(/^([\s]*)[-*+](\s*)\[([ xX])\](\s*)/gm, '$1- [$3] ')
RECURSIVE ReplaceTaskPrefixes(_, _)
ReplaceTaskPrefixes(s, i) ==
    IF i > Len(s) THEN <<>>
    ELSE LET m == IF IsLineStart(s, i) THEN TaskPrefixAt(s, i)
                  ELSE [len |-> 0, lead |-> 0, box |-> 0]
         IN  IF m.len > 0
             THEN SubSeq(s, i, i + m.lead - 1)
                    \o <<"-", " ", "[", s[m.box], "]", " ">>
                    \o ReplaceTaskPrefixes(s, i + m.len)
             ELSE <<s[i]>> \o ReplaceTaskPrefixes(s, i + 1)

\* One match of /\$\$([\s\S]+?)\$\$/ starting at position i: the position of
\* the closing "$$", 0 when there is no match there (the content is lazy and
\* has at least one character).
MathBlockCloseAt(s, i) ==
    IF StartsAt(s, i, <<"$", "$">>) THEN IndexFrom(s, <<"$", "$">>, i + 3) ELSE 0

\* processed.replace(/\$\$([\s\S]+?)\$\$/g, (match, content) =>
\*     '\n$$\n' + content.trim() + '\n$$\n')
RECURSIVE RewrapMathBlocks(_, _)
RewrapMathBlocks(s, i) ==
    IF i > Len(s) THEN <<>>
    ELSE LET c == MathBlockCloseAt(s, i)
         IN  IF c > 0
             THEN <<"\n", "$", "$", "\n">> \o Trim(SubSeq(s, i + 2, c - 1))
                    \o <<"\n", "$", "$", "\n">> \o RewrapMathBlocks(s, c + 2)
             ELSE <<s[i]>> \o RewrapMathBlocks(s, i + 1)

preProcessMarkdown(markdown) ==
    IF markdown = <<>> THEN <<>>
    ELSE RewrapMathBlocks(ReplaceTaskPrefixes(markdown, 1), 1)

(***************************************************************************)
(* markdownrenderer.js (B): the grammar rules given to marked.  A          *)
(* tokenizer is applied to the remaining input src and returns a token     *)
(* (its raw is the text it consumed) or NoMatch (undefined).               *)
(***************************************************************************)
NoMatch == [type |-> "none", raw |-> <<>>, text |-> <<>>, lang |-> ""]
HtmlToken(raw, text) == [type |-> "html", raw |-> raw, text |-> text, lang |-> ""]

\* the end of the first line of src: the position of its "\n", or Len + 1
LineEnd(s) == RunOutside(s, 1, {"\n"}) + 1

emojiMap ==
    [n \in {<<"s", "m", "i", "l", "e">>, <<"h", "e", "a", "r", "t">>,
            <<"t", "h", "u", "m", "b", "s", "u", "p">>, <<"s", "t", "a", "r">>,
            <<"f", "i", "r", "e">>, <<"w", "a", "r", "n", "i", "n", "g">>,
            <<"r", "o", "c", "k", "e", "t">>, <<"c", "h", "e", "c", "k">>,
            <<"x">>} |-> <<"&emoji;">> \o n]

EmojiNameChars ==
    {"a", "b", "c", "d", "e", "f", "g", "h", "i", "j", "k", "l", "m", "n", "o",
     "p", "q", "r", "s", "t", "u", "v", "w", "x", "y", "z", "0", "1", "2", "3",
     "4", "5", "6", "7", "8", "9", "_", "+", "-"}

\* emojiExtension.tokenizer: /^(:[a-z0-9_+-]+:)/ and a name of emojiMap
emojiTokenizer(src) ==
    LET run == RunInside(src, 2, EmojiNameChars)
    IN  IF /\ StartsWith(src, <<":">>)
           /\ run >= 1
           /\ 2 + run <= Len(src) /\ src[2 + run] = ":"
           /\ SubSeq(src, 2, 1 + run) \in DOMAIN emojiMap
        THEN [type |-> "emoji", raw |-> SubSeq(src, 1, 2 + run),
              text |-> emojiMap[SubSeq(src, 2, 1 + run)], lang |-> ""]
        ELSE NoMatch

\* url.match(/(?:youtube\.com\/watch\?v=|youtu\.be\/)([^&?\/]+)/i)[1], or ''.
\* The literals "youtube.com/watch?v=" and "youtu.be/" are atoms of the text
\* (a url holds each at most once, so no atom lies inside an id).
\* an id that runs to the end of the url
RECURSIVE VideoIdToEnd(_, _)
VideoIdToEnd(url, k) ==
    IF k > Len(url) THEN <<>>
    ELSE IF url[k] \in {"youtube.com/watch?v=", "youtu.be/"} /\ k < Len(url)
    THEN SubSeq(url, k + 1, Len(url))
    ELSE VideoIdToEnd(url, k + 1)

RECURSIVE VideoIdFrom(_, _)
VideoIdFrom(url, k) ==
    IF k > Len(url) THEN <<>>
    ELSE IF /\ url[k] \in {"youtube.com/watch?v=", "youtu.be/"}
            /\ RunOutside(url, k + 1, {"&", "?", "/"}) >= 1
    THEN SubSeq(url, k + 1, k + RunOutside(url, k + 1, {"&", "?", "/"}))
    ELSE VideoIdFrom(url, k + 1)

VideoIdOf(url) == VideoIdFrom(url, 1)

\* videoLinks.tokenizer: /^(.*)@\[youtube-thumbnail\]\(([^)]+)\)(\n|$)/
\* The literal "@[youtube-thumbnail]" is an atom of the text.  (.*) is greedy
\* and stays on the first line: the last atom of the line that lets the rest
\* match is the one taken.
\* the rest of the pattern from the atom at position k on: the url is n
\* characters long
VideoLinkAt(src, k, n) ==
    /\ src[k] = "@[youtube-thumbnail]"
    /\ k + 1 <= Len(src) /\ src[k + 1] = "("
    /\ n >= 1
    /\ k + 2 + n <= Len(src)
    /\ (k + 3 + n > Len(src) \/ src[k + 3 + n] = "\n")

\* the token of a match: text is what precedes the atom, raw the whole match
VideoLinkToken(raw, text, url, id) ==
    IF id = <<>> THEN NoMatch
    ELSE HtmlToken(raw,
           <<"<p>">> \o text \o <<"<a href=\"">> \o url
             \o <<"\" class=\"youtube-thumbnail-link\" target=\"_blank\">",
                  "\n", "<img src=\"https://img.youtube.com/vi/">> \o id
             \o <<"/0.jpg\" alt=\"YouTube Video Thumbnail\" class=\"youtube-thumbnail-image\">",
                  "\n", "</a>", "</p>">>)

\* the match whose atom is the last one at or before position k
RECURSIVE VideoLinkBefore(_, _)
VideoLinkBefore(src, k) ==
    IF k < 1 THEN NoMatch
    ELSE IF VideoLinkAt(src, k, RunOutside(src, k + 2, {")"}))
    THEN VideoLinkToken(
           SubSeq(src, 1, Min(k + 3 + RunOutside(src, k + 2, {")"}), Len(src))),
           SubSeq(src, 1, k - 1),
           SubSeq(src, k + 2, k + 1 + RunOutside(src, k + 2, {")"})),
           VideoIdOf(SubSeq(src, k + 2, k + 1 + RunOutside(src, k + 2, {")"}))))
    ELSE VideoLinkBefore(src, k - 1)

videoLinksTokenizer(src) == VideoLinkBefore(src, LineEnd(src) - 1)

\* taskLists.tokenizer: /^([-*+])\s+\[([ xX])\]\s+(.+)(?:\n|$)/
\* (the white space runs are greedy and give back what the rest needs: the
\* label (.+) takes at least one character of the line, which the second run
\* gives back when it reached the end of the text or ran over a line break)
\* a task item whose checkbox is checked for the lower-case letter only
TaskItemHtmlLowerOnly(letter, label) ==
    <<"<li class=\"task-list-item\">", "<input type=\"checkbox\" ">>
      \o (IF letter = "x" THEN <<"checked">> ELSE <<>>)
      \o <<" disabled>", " ">> \o label \o <<"</li>">>

TaskItemHtml(letter, label) ==
    <<"<li class=\"task-list-item\">", "<input type=\"checkbox\" ">>
      \o (IF letter \in {"x", "X"} THEN <<"checked">> ELSE <<>>)
      \o <<" disabled>", " ">> \o label \o <<"</li>">>

taskListsTokenizer(src) ==
    LET g1 == SpaceRun(src, 2)
        lb == 2 + g1
        okHead == /\ Len(src) >= 1 /\ src[1] \in ListMarkers
                  /\ g1 >= 1
                  /\ lb + 2 <= Len(src)
                  /\ src[lb] = "[" /\ src[lb + 1] \in CheckboxLetters /\ src[lb + 2] = "]"
        g2 == SpaceRun(src, lb + 3)
        \* the label starts after k characters of white space, 1 <= k <= g2,
        \* k as large as the rest allows; the label is "." characters up to
        \* the end of its line and is not empty
        labelLen(k) == RunOutside(src, lb + 3 + k, {"\n"})
        ks == {k \in 1..g2 : labelLen(k) >= 1}
    IN  IF ~okHead \/ ks = {} THEN NoMatch
        ELSE LET k     == CHOOSE x \in ks : \A y \in ks : x >= y
                 start == lb + 3 + k
                 stop  == start + labelLen(k) - 1
             IN  HtmlToken(SubSeq(src, 1, Min(stop + 1, Len(src))),
                           TaskItemHtml(src[lb + 1], SubSeq(src, start, stop)))

\* a delimiter rule that takes an empty span too: /^~([^~]*)~/
EmptySpanTokenizer(src, d, open, close) ==
    IF StartsWith(src, <<d>>) /\ 2 + RunOutside(src, 2, {d}) <= Len(src)
    THEN HtmlToken(SubSeq(src, 1, 2 + RunOutside(src, 2, {d})),
                   <<open>> \o SubSeq(src, 2, 1 + RunOutside(src, 2, {d})) \o <<close>>)
    ELSE NoMatch

\* subscript.tokenizer /^~([^~]+)~/ and superscript.tokenizer /^\^([^\^]+)\^/
DelimitedTokenizer(src, d, open, close) ==
    LET n == RunOutside(src, 2, {d})
    IN  IF StartsWith(src, <<d>>) /\ n >= 1 /\ 2 + n <= Len(src)
        THEN HtmlToken(SubSeq(src, 1, 2 + n),
                       <<open>> \o SubSeq(src, 2, 1 + n) \o <<close>>)
        ELSE NoMatch

subscriptTokenizer(src) == DelimitedTokenizer(src, "~", "<sub>", "</sub>")
superscriptTokenizer(src) == DelimitedTokenizer(src, "^", "<sup>", "</sup>")

\* highlight.tokenizer /^==([^=]+)==/
highlightTokenizer(src) ==
    LET n == RunOutside(src, 3, {"="})
    IN  IF /\ StartsWith(src, <<"=", "=">>) /\ n >= 1
           /\ StartsAt(src, 3 + n, <<"=", "=">>)
        THEN HtmlToken(SubSeq(src, 1, 4 + n),
                       <<"<mark>">> \o SubSeq(src, 3, 2 + n) \o <<"</mark>">>)
        ELSE NoMatch

\* an inline math rule without the test for "$$" that takes an empty span too
mathInlineTokenizerDoubled(src, faults) ==
    IF StartsWith(src, <<"$">>) /\ 2 + RunOutside(src, 2, {"$"}) <= Len(src)
    THEN HtmlToken(SubSeq(src, 1, 2 + RunOutside(src, 2, {"$"})),
           <<"<span class=\"math math-inline\">">>
             \o KatexMarkup(Trim(SubSeq(src, 2, 1 + RunOutside(src, 2, {"$"}))), FALSE)
             \o <<"</span>">>)
    ELSE NoMatch

\* mathInline.tokenizer: declines on "$$", then /^\$([^\$]+)\$/
mathInlineTokenizer(src, faults) ==
    LET n == RunOutside(src, 2, {"$"})
    IN  IF StartsWith(src, <<"$", "$">>) THEN NoMatch
        ELSE IF StartsWith(src, <<"$">>) /\ n >= 1 /\ 2 + n <= Len(src)
        THEN LET content == Trim(SubSeq(src, 2, 1 + n))
             IN  HtmlToken(SubSeq(src, 1, 2 + n),
                   <<"<span class=\"math math-inline\">">>
                     \o (IF KatexThrows(FALSE, faults)
                         THEN <<"$">> \o content \o <<"$">>
                         ELSE KatexMarkup(content, FALSE))
                     \o <<"</span>">>)
        ELSE NoMatch

\* a block math rule that does not wait for the closing delimiter
mathBlockTokenizerUnclosed(src, faults) ==
    IF StartsWith(src, <<"$", "$">>) /\ Len(src) >= 3
    THEN HtmlToken(src, <<"<div class=\"math math-block\">">>
                          \o KatexMarkup(Trim(From(src, 3)), TRUE) \o <<"</div>">>)
    ELSE NoMatch

\* mathBlock.tokenizer: /^\$\$\n([^\$]+)\n\$\$/
mathBlockTokenizer(src, faults) ==
    LET n == RunOutside(src, 4, {"$"})
    IN  IF /\ StartsWith(src, <<"$", "$", "\n">>)
           /\ n >= 2
           /\ src[3 + n] = "\n"
           /\ StartsAt(src, 4 + n, <<"$", "$">>)
        THEN LET content == Trim(SubSeq(src, 4, 2 + n))
             IN  HtmlToken(SubSeq(src, 1, 5 + n),
                   <<"<div class=\"math math-block\">">>
                     \o (IF KatexThrows(TRUE, faults)
                         THEN <<"$", "$">> \o content \o <<"$", "$">>
                         ELSE KatexMarkup(content, TRUE))
                     \o <<"</div>">>)
        ELSE NoMatch

(***************************************************************************)
(* markdownrenderer.js (B): customRenderer.code and hooks.postprocess.     *)
(***************************************************************************)
\* language ? ' class="language-' + language + '"' : ''   (no tag is "")
LangClass(language) ==
    IF language = "" THEN <<>> ELSE <<" class=\"language-", language, "\"">>

\* customRenderer.code(code, language); highlight is self.options.highlight
\* of the instance whose closure marked calls, languages is Prism.languages,
\* rnd the value Math.random() gives the call.
customRendererCode(code, language, highlight, languages, faults, rnd) ==
    LET lang == ToLowerCase(language)
    IN  IF lang = "mermaid"
        THEN <<"<div class=\"mermaid\" id=\"mermaid-diagram-", rnd, "\">">>
               \o EscapeHtml(code) \o <<"</div>">>
        ELSE IF /\ highlight /\ lang # "" /\ lang \notin {"text", "plaintext"}
                /\ lang \in languages
                /\ "prism" \notin faults
        THEN <<"<pre><code">> \o LangClass(language) \o <<">">>
               \o PrismMarkup(code, lang) \o <<"</code></pre>", "\n">>
        ELSE <<"<pre><code">> \o LangClass(language) \o <<">">>
               \o EscapeHtml(code) \o <<"</code></pre>", "\n">>

\* the atoms of a text that hold no "<" (the class [^<] of postprocess)
CellWords == {"Header 1", "Header 2", "Header 3", "Left", "Center", "Right",
              "aligned", "text"}
HasNoLt(t) ==
    \/ t \in CellWords
    \/ t \in {"&amp;", "&lt;", "&gt;", "&quot;", "&#039;", "checked"}
    \/ t \in {"a", "b", "c", "x", "X", "g", " ", "\n", "$", "-", "*", "+", "[", "]",
              "~", "^", "=", ":", "&", ">", "(", ")", "?", "/", "|"}

RECURSIVE RunNoLt(_, _)
RunNoLt(s, i) == IF i <= Len(s) /\ HasNoLt(s[i]) THEN 1 + RunNoLt(s, i + 1) ELSE 0

\* html.replace(/<TAG>([^<]+)<\/TAG>/g, '<TAG style="text-align:left">$1</TAG>')
RECURSIVE StyleBareCells(_, _, _, _, _)
StyleBareCells(html, i, open, close, styled) ==
    IF i > Len(html) THEN <<>>
    ELSE LET n == RunNoLt(html, i + 1)
         IN  IF html[i] = open /\ n >= 1 /\ i + 1 + n <= Len(html)
                /\ html[i + 1 + n] = close
             THEN <<styled>> \o SubSeq(html, i + 1, i + n) \o <<close>>
                    \o StyleBareCells(html, i + 2 + n, open, close, styled)
             ELSE <<html[i]>> \o StyleBareCells(html, i + 1, open, close, styled)

\* html.replace(/literal/g, replacement) for a literal pattern
RECURSIVE ReplaceAll(_, _, _, _)
ReplaceAll(html, i, pat, rep) ==
    IF i > Len(html) THEN <<>>
    ELSE IF StartsAt(html, i, pat)
         THEN rep \o ReplaceAll(html, i + Len(pat), pat, rep)
         ELSE <<html[i]>> \o ReplaceAll(html, i + 1, pat, rep)

Restyle(html, tag, word, to) ==
    ReplaceAll(html, 1,
        <<"<" \o tag \o " style=\"text-align:left\">", word, "</" \o tag \o ">">>,
        <<"<" \o tag \o " style=\"text-align:" \o to \o "\">", word, "</" \o tag \o ">">>)

\* markedHooks.hooks.postprocess(html)
postprocess(html) ==
    Restyle(Restyle(
      Restyle(Restyle(Restyle(Restyle(
        StyleBareCells(
          StyleBareCells(html, 1, "<th>", "</th>", "<th style=\"text-align:left\">"),
          1, "<td>", "</td>", "<td style=\"text-align:left\">"),
        "th", "Header 2", "center"),
        "td", "Center", "center"),
        "td", "aligned", "center"),
        "td", "text", "center"),
      "th", "Header 3", "right"),
      "td", "Right", "right")

(***************************************************************************)
(* The Markdown engine (marked), as far as both renderers drive it: the    *)
(* block lexer with the registered block rules, fenced code, blank lines   *)
(* and paragraphs; the inline lexer with the registered inline rules, line *)
(* breaks and escaped text.  The texts of the model hold no other baseline *)
(* syntax (headings, quotes, emphasis, links).                             *)
(***************************************************************************)
\* the code fence (three backquotes), an atom of the text
Fence == "FENCE"

\* getCustomExtensions: the rules of each level, in declaration order
BlockRules == <<"videoLinks", "taskLists", "mathBlock">>
InlineRules == <<"subscript", "superscript", "highlight", "mathInline", "emoji">>

Tokenize(rule, src, faults) ==
    CASE rule = "videoLinks"  -> videoLinksTokenizer(src)
      [] rule = "taskLists"   -> taskListsTokenizer(src)
      [] rule = "mathBlock"   -> mathBlockTokenizer(src, faults)
      [] rule = "subscript"   -> subscriptTokenizer(src)
      [] rule = "superscript" -> superscriptTokenizer(src)
      [] rule = "highlight"   -> highlightTokenizer(src)
      [] rule = "mathInline"  -> mathInlineTokenizer(src, faults)
      [] rule = "emoji"       -> emojiTokenizer(src)

\* the token a rule gave, or what the next rule gives when it declined
Otherwise(t, next) == IF t.type # "none" THEN t ELSE next

\* marked.use({ extensions }): the tokenizer of each extension of the list is
\* put at the head of the list of its level (unshift), so the lexer holds the
\* rules of a level in the reverse of their declaration order
RECURSIVE Registered(_)
Registered(rules) ==
    IF rules = <<>> THEN <<>> ELSE Append(Registered(Tail(rules)), Head(rules))

\* the token of the first rule of the list that accepts src, or NoMatch
RECURSIVE FirstMatch(_, _, _)
FirstMatch(rules, src, faults) ==
    IF rules = <<>> THEN NoMatch
    ELSE Otherwise(Tokenize(Head(rules), src, faults),
                   FirstMatch(Tail(rules), src, faults))

\* the start probes: a 0-based index into src, -1 for "no match"
\* taskLists.start: /^[-*+]\s+\[([ xX])\]/m matches somewhere ? 0 : -1
TaskStartMatches(src) ==
    \E i \in 1..Len(src) :
        LET g == SpaceRun(src, i + 1)
        IN  /\ IsLineStart(src, i) /\ src[i] \in ListMarkers /\ g >= 1
            /\ i + g + 3 <= Len(src)
            /\ src[i + g + 1] = "[" /\ src[i + g + 2] \in CheckboxLetters
            /\ src[i + g + 3] = "]"

Start(rule, src) ==
    CASE rule = "videoLinks"  -> IF Includes(src, <<"@[youtube-thumbnail]">>) THEN 0 ELSE -1
      [] rule = "taskLists"   -> IF TaskStartMatches(src) THEN 0 ELSE -1
      [] rule = "mathBlock"   -> IndexOf(src, <<"$", "$">>) - 1
      [] rule = "subscript"   -> IndexOf(src, <<"~">>) - 1
      [] rule = "superscript" -> IndexOf(src, <<"^">>) - 1
      [] rule = "highlight"   -> IndexOf(src, <<"=", "=">>) - 1
      [] rule = "mathInline"  -> IndexOf(src, <<"$">>) - 1
      [] rule = "emoji"       -> IF Includes(src, <<":">>) THEN 0 ELSE -1

\* the text the baseline paragraph (or text) rule may look at: src cut at the
\* earliest start index the probes report for src.slice(1)
CutAt(src, idx) ==
    IF idx = {} THEN src
    ELSE SubSeq(src, 1, Min(Len(src), 1 + CHOOSE x \in idx : \A y \in idx : x <= y))

CutSrc(rules, src) ==
    CutAt(src, {Start(rules[k], From(src, 2)) : k \in 1..Len(rules)} \ {-1})

\* a line made of spaces only, from position i: its length with its line break
BlankLineLen(s, i) ==
    LET k == RunInside(s, i, {" ", "\t"})
    IN  IF i > Len(s) THEN 0
        ELSE IF i + k > Len(s) THEN k
        ELSE IF s[i + k] = "\n" THEN k + 1 ELSE 0

\* the space rule /^(?:[ \t]*(?:\n|$))+/: the length of the blank lines at
\* the head of s
RECURSIVE BlankLinesLen(_, _)
BlankLinesLen(s, i) ==
    LET n == BlankLineLen(s, i)
    IN  IF n = 0 THEN 0 ELSE n + BlankLinesLen(s, i + n)

\* the tags that open a block of raw HTML at the start of a line (block.html,
\* the elements of its tag list that the texts of the model use)
HtmlBlockTags == {"<div>", "</div>", "<table>", "</table>", "<tr>", "</tr>",
                  "<th>", "</th>", "<td>", "</td>"}

\* (?:\n[ \t]*)+\n behind a line break: the length of the blank lines from
\* position i that end with a line break
RECURSIVE ClosedBlankLinesLen(_, _)
ClosedBlankLinesLen(s, i) ==
    LET k == RunInside(s, i, {" ", "\t"})
    IN  IF i + k <= Len(s) /\ s[i + k] = "\n"
        THEN k + 1 + ClosedBlankLinesLen(s, i + k + 1)
        ELSE 0

\* the html rule from position i of a block on: the block runs to the next
\* blank line, which it takes along, or to the end of the text
RECURSIVE HtmlBlockLen(_, _)
HtmlBlockLen(s, i) ==
    IF i > Len(s) THEN 0
    ELSE IF s[i] = "\n" /\ ClosedBlankLinesLen(s, i + 1) > 0
    THEN 1 + ClosedBlankLinesLen(s, i + 1)
    ELSE 1 + HtmlBlockLen(s, i + 1)

\* the html rule: the token carries the block as it stands
HtmlBlockToken(src) ==
    IF src[1] \in HtmlBlockTags
    THEN [type |-> "html", raw |-> SubSeq(src, 1, HtmlBlockLen(src, 1)),
          text |-> SubSeq(src, 1, HtmlBlockLen(src, 1)), lang |-> ""]
    ELSE NoMatch

\* the paragraph rule: non-empty lines up to a blank line, a fence, a block of
\* raw HTML or the end;
\* the length of the lines taken from position i on (i is in the text)
RECURSIVE ParagraphLen(_, _)
ParagraphLen(s, i) ==
    LET n    == RunOutside(s, i, {"\n"})
        next == i + n + 1
    IN  IF i + n > Len(s) THEN n
        ELSE IF \/ next > Len(s)
                \/ BlankLineLen(s, next) > 0
                \/ s[next] = Fence
                \/ s[next] \in HtmlBlockTags
             THEN n
             ELSE n + 1 + ParagraphLen(s, next)

\* the fences rule on a text that starts with the fence atom: the language
\* tag is what follows the fence on its line, the code runs to the line that
\* holds the closing fence, or to the end of the text
FenceClosedAt(src, e, close) ==
    [type |-> "code",
     raw  |-> IF close = 0 THEN src
              ELSE SubSeq(src, 1, Min(Len(src),
                     close + 1 + RunOutside(src, close + 2, {"\n"}) + 1)),
     text |-> SubSeq(src, e + 1, (IF close = 0 THEN Len(src) + 1 ELSE close) - 1),
     lang |-> IF e > 2 THEN src[2] ELSE ""]

FenceToken(src) ==
    IF src[1] = Fence
    THEN FenceClosedAt(src, LineEnd(src), IndexFrom(src, <<"\n", Fence>>, LineEnd(src)))
    ELSE NoMatch

\* the space rule: the blank lines at the head of src, n characters
SpaceToken(src, n) ==
    IF n > 0
    THEN [type |-> "space", raw |-> SubSeq(src, 1, n), text |-> <<>>, lang |-> ""]
    ELSE NoMatch

\* the paragraph rule on the text it may look at: n characters of lines
ParagraphToken(cut, n) ==
    [type |-> "paragraph", raw |-> SubSeq(cut, 1, n + RunInside(cut, n + 1, {"\n"})),
     text |-> SubSeq(cut, 1, n), lang |-> ""]

\* the token the block lexer takes at the head of src (src is not empty):
\* the registered rules come first, then blank lines, fences, blocks of raw
\* HTML and paragraphs
BlockToken(src, rules, faults) ==
    Otherwise(FirstMatch(Registered(rules), src, faults),
      Otherwise(SpaceToken(src, BlankLinesLen(src, 1)),
        Otherwise(FenceToken(src),
          Otherwise(HtmlBlockToken(src),
                    ParagraphToken(CutSrc(rules, src),
                                   ParagraphLen(CutSrc(rules, src), 1))))))

\* tokens with token t added: a paragraph that follows a clipped paragraph
\* is joined to it
AddToken(tokens, t, clipped) ==
    IF /\ t.type = "paragraph" /\ clipped
       /\ tokens # <<>> /\ tokens[Len(tokens)].type = "paragraph"
    THEN [tokens EXCEPT ![Len(tokens)] =
            [@ EXCEPT !.raw = @ \o <<"\n">> \o t.raw, !.text = @ \o <<"\n">> \o t.text]]
    ELSE Append(tokens, t)

\* marked's block lexer.  rules are the registered block rules (none for A).
\* clipped is lastParagraphClipped.
RECURSIVE BlockTokens(_, _, _, _, _)
\* the lexer goes on behind token t
BlockTokensAfter(t, src, rules, faults, tokens, clipped) ==
    BlockTokens(From(src, Len(t.raw) + 1), rules, faults, AddToken(tokens, t, clipped),
                IF t.type = "paragraph" THEN Len(CutSrc(rules, src)) # Len(src)
                ELSE clipped)

BlockTokens(src, rules, faults, tokens, clipped) ==
    IF src = <<>> THEN tokens
    ELSE BlockTokensAfter(BlockToken(src, rules, faults), src, rules, faults,
                          tokens, clipped)

\* the baseline del rule (gfm):
\* /^(~~?)(?=[^\s~])((?:\\.|[^\\])*?(?:\\.|[^\s~\\]))\1(?=[^~]|$)/
Tildes(d) == [k \in 1..d |-> "~"]

\* the last character of the content of a span of d-fold delimiters whose
\* content ends at position e or later, 0 when there is none
RECURSIVE DelCloseFrom(_, _, _)
DelCloseFrom(s, e, d) ==
    IF e + d > Len(s) THEN 0
    ELSE IF /\ s[e] \notin {" ", "\t", "\n", "~"}
            /\ StartsAt(s, e + 1, Tildes(d))
            /\ (e + d + 1 > Len(s) \/ s[e + d + 1] # "~")
    THEN e
    ELSE DelCloseFrom(s, e + 1, d)

DelEnd(s, i, d) ==
    IF /\ StartsAt(s, i, Tildes(d)) /\ i + d <= Len(s)
       /\ s[i + d] \notin {" ", "\t", "\n", "~"}
    THEN DelCloseFrom(s, i + d, d)
    ELSE 0

\* the width of the delimiter of the del span at position i, 0 for no span
DelWidth(s, i) ==
    IF DelEnd(s, i, 2) > 0 THEN 2 ELSE IF DelEnd(s, i, 1) > 0 THEN 1 ELSE 0

\* marked's inline lexer and renderer on the text of a paragraph.  rules are
\* the registered inline rules; breaks is the option of that name.
RECURSIVE InlineHtml(_, _, _, _, _)
\* the br rule at position i, behind k blanks: a line break with text after it
IsBreakAt(s, i, k) ==
    i + k <= Len(s) /\ s[i + k] = "\n" /\ Trim(From(s, i + k + 1)) # <<>>

\* the del token at position i, its delimiters d wide and its content ending
\* at e: the content is lexed in turn, and the lexer goes on behind the span
DelHtml(s, i, d, e, rules, faults, breaks) ==
    <<"<del>">> \o InlineHtml(SubSeq(s, i + d, e), 1, rules, faults, breaks)
      \o <<"</del>">> \o InlineHtml(s, e + d + 1, rules, faults, breaks)

\* the inline lexer goes on at position i, where the registered rules gave t
InlineHtmlAfter(t, s, i, rules, faults, breaks) ==
    IF t.type # "none"
    THEN t.text \o InlineHtml(s, i + Len(t.raw), rules, faults, breaks)
    ELSE IF breaks /\ IsBreakAt(s, i, RunInside(s, i, {" "}))
    THEN <<"<br>">> \o InlineHtml(s, i + RunInside(s, i, {" "}) + 1, rules, faults, breaks)
    ELSE IF DelWidth(s, i) > 0
    THEN DelHtml(s, i, DelWidth(s, i), DelEnd(s, i, DelWidth(s, i)), rules, faults, breaks)
    ELSE <<EscapeChar(s[i])>> \o InlineHtml(s, i + 1, rules, faults, breaks)

InlineHtml(s, i, rules, faults, breaks) ==
    IF i > Len(s) THEN <<>>
    ELSE InlineHtmlAfter(FirstMatch(Registered(rules), From(s, i), faults), s, i, rules,
                         faults,
                         breaks)

(***************************************************************************)
(* markdownrenderer.js (B): render.                                        *)
(***************************************************************************)
NoContent == <<"<p>", "<em>", "No content to render", "</em>", "</p>">>

\* Math.random() of the k-th token's call of customRenderer.code
RandomOf(rnds, k) == rnds[((k - 1) % Len(rnds)) + 1]

\* marked.parser with B's options: the html of one block token
BlockHtmlB(t, k, highlight, languages, faults, rnds) ==
    CASE t.type = "paragraph" ->
            <<"<p>">> \o InlineHtml(t.text, 1, InlineRules, faults, TRUE) \o <<"</p>", "\n">>
      [] t.type = "code" ->
            customRendererCode(t.text, t.lang, highlight, languages, faults,
                               RandomOf(rnds, k))
      [] t.type = "html" -> t.text
      [] OTHER -> <<>>

\* marked.parse(processedMarkdown) as B configures marked: lexer, parser and
\* the postprocess hook
\* marked.parser(tokens) with B's options
markedParserB(tokens, highlight, languages, faults, rnds) ==
    Concat([k \in 1..Len(tokens) |->
              BlockHtmlB(tokens[k], k, highlight, languages, faults, rnds)])

markedParseB(markdown, highlight, languages, faults, rnds) ==
    postprocess(markedParserB(BlockTokens(markdown, BlockRules, faults, <<>>, FALSE),
                              highlight, languages, faults, rnds))

\* the body of the try block of render
renderBodyB(markdown, highlight, languages, faults, rnds) ==
    IF Trim(markdown) = <<>> THEN Returned(NoContent)
    ELSE Returned(markedParseB(preProcessMarkdown(Trim(markdown)),
                               highlight, languages, faults, rnds))

\* catch (error) { return '<p>Error rendering markdown: ' + error.message + '</p>' }
CatchB(result) ==
    IF result.thrown
    THEN Returned(<<"<p>", "Error rendering markdown: ">> \o result.val \o <<"</p>">>)
    ELSE result

renderB(markdown, highlight, languages, faults, rnds) ==
    CatchB(renderBodyB(markdown, highlight, languages, faults, rnds))

(***************************************************************************)
(* markdowntorender.js (A): parseMarkdown and the tree annotator.          *)
(***************************************************************************)
MathExpr(type, content, fromCodeBlock) ==
    [type |-> type, content |-> content, fromCodeBlock |-> fromCodeBlock]

\* blockRegex = /\$\$([\s\S]*?)\$\$/g : the records of its matches from i on
RECURSIVE BlockMathMatches(_, _)
BlockMathMatches(text, i) ==
    IF i > Len(text) THEN <<>>
    ELSE LET close == IF StartsAt(text, i, <<"$", "$">>)
                      THEN IndexFrom(text, <<"$", "$">>, i + 2) ELSE 0
         IN  IF close > 0
             THEN <<MathExpr("block", Trim(SubSeq(text, i + 2, close - 1)), FALSE)>>
                    \o BlockMathMatches(text, close + 2)
             ELSE BlockMathMatches(text, i + 1)

\* a scan that takes no pair of characters for a "$$"
NeverDollarPair(text, a, b) == FALSE

\* text.substring(a, b) === '$$', a and b the 0-based bounds of JavaScript
\* (a negative bound counts as 0)
IsDollarPair(text, a, b) == Sub(text, Max(a, 0) + 1, b) = <<"$", "$">>

\* inlineRegex = /\$([^\$\n]+)\$/g : the records of its matches from i on,
\* without those that touch a "$$"
RECURSIVE InlineMathMatches(_, _)
InlineMathMatches(text, i) ==
    IF i > Len(text) THEN <<>>
    ELSE LET n     == RunOutside(text, i + 1, {"$", "\n"})
             found == /\ text[i] = "$" /\ n >= 1
                      /\ i + 1 + n <= Len(text) /\ text[i + 1 + n] = "$"
             index == i - 1
             len   == n + 2
             skip  == \/ IsDollarPair(text, index - 1, index + 1)
                      \/ IsDollarPair(text, index + len - 1, index + len + 1)
         IN  IF ~found THEN InlineMathMatches(text, i + 1)
             ELSE IF skip THEN InlineMathMatches(text, i + len)
             ELSE <<MathExpr("inline", Trim(SubSeq(text, i + 1, i + n)), FALSE)>>
                    \o InlineMathMatches(text, i + len)

extractMathFromText(text) == BlockMathMatches(text, 1) \o InlineMathMatches(text, 1)

MathLanguages == {"math", "katex", "tex"}

\* marked.lexer(markdown) with the baseline rules; a paragraph token owns one
\* nested text token that carries the same (escaped) text
lexerA(markdown) == BlockTokens(markdown, <<>>, {}, <<>>, FALSE)

NestedTokens(token) ==
    IF token.type = "paragraph"
    THEN <<[type |-> "text", raw |-> token.raw, text |-> EscapeHtml(token.text),
            lang |-> ""]>>
    ELSE <<>>

\* detectMathExpressions.processToken, on a token and then on its nested tokens
ProcessMathToken(token) ==
    LET own  == (IF token.type \in {"paragraph", "text"} /\ token.text # <<>>
                 THEN extractMathFromText(token.text) ELSE <<>>)
                \o (IF token.type = "code" /\ token.lang \in MathLanguages
                    THEN <<MathExpr("block", token.text, TRUE)>> ELSE <<>>)
        kids == NestedTokens(token)
    IN  own \o Concat([k \in 1..Len(kids) |->
                         IF kids[k].text # <<>> THEN extractMathFromText(kids[k].text)
                         ELSE <<>>])

detectMathExpressions(tokens) ==
    Concat([k \in 1..Len(tokens) |-> ProcessMathToken(tokens[k])])

\* detectCodeLanguages.processToken on the token itself: languages is the
\* Set so far, in insertion order
AddLanguage(token, languages) ==
    IF token.type = "code" /\ token.lang # "" /\ token.lang # "mermaid"
    THEN IF \E k \in DOMAIN languages : languages[k] = ToLowerCase(token.lang)
         THEN languages
         ELSE Append(languages, ToLowerCase(token.lang))
    ELSE languages

\* tokens.forEach(processToken): each token, then its nested tokens
RECURSIVE CollectLanguages(_, _)
CollectLanguages(tokens, languages) ==
    IF tokens = <<>> THEN languages
    ELSE CollectLanguages(Tail(tokens),
           CollectLanguages(NestedTokens(Head(tokens)),
                            AddLanguage(Head(tokens), languages)))

\* Array.from(languages)
detectCodeLanguages(tokens) == CollectLanguages(tokens, <<>>)

\* the tree parseMarkdown returns for the tokens of the lexer
Document(tokens) ==
    [type |-> "document", children |-> tokens,
     codeLanguages |-> detectCodeLanguages(tokens),
     mathExpressions |-> detectMathExpressions(tokens)]

parseMarkdown(markdown) == Document(lexerA(markdown))

(***************************************************************************)
(* markdowntorender.js (A): renderToHtml and the math substitution pass.   *)
(***************************************************************************)
\* renderer.code(code, language) of renderToHtml; a throw of Prism.highlight
\* is not caught here
rendererCodeA(code, language, languages, faults) ==
    IF language = "mermaid"
    THEN Returned(<<"<div class=\"mermaid\">">> \o code \o <<"</div>">>)
    ELSE IF language \in MathLanguages
    THEN IF KatexThrows(TRUE, faults)
         THEN Returned(<<"<pre><code">> \o LangClass(language) \o <<">">> \o code
                         \o <<"</code></pre>">>)
         ELSE Returned(KatexMarkup(code, TRUE))
    ELSE IF language # "" /\ language \in languages
    THEN IF "prism" \in faults THEN Thrown(<<"prism failed">>)
         ELSE Returned(<<"<pre><code">> \o LangClass(language) \o <<">">>
                         \o PrismMarkup(code, language) \o <<"</code></pre>">>)
    ELSE Returned(<<"<pre><code">> \o LangClass(language) \o <<">">> \o code
                    \o <<"</code></pre>">>)

\* marked.parser(ast.children) with A's renderer: the html of one block token
BlockHtmlA(t, languages, faults) ==
    CASE t.type = "paragraph" ->
            Returned(<<"<p>">> \o InlineHtml(t.text, 1, <<>>, faults, FALSE)
                       \o <<"</p>", "\n">>)
      [] t.type = "code" -> rendererCodeA(t.text, t.lang, languages, faults)
      [] t.type = "html" -> Returned(t.text)
      [] OTHER -> Returned(<<>>)

\* the parser's loop from token k on, out the html so far: the first token
\* whose rendering throws ends it
RECURSIVE ParserOut(_, _, _)
ParserOut(parts, k, out) ==
    IF k > Len(parts) THEN Returned(out)
    ELSE IF parts[k].thrown THEN parts[k]
    ELSE ParserOut(parts, k + 1, out \o parts[k].val)

markedParserA(tokens, languages, faults) ==
    ParserOut([k \in 1..Len(tokens) |-> BlockHtmlA(tokens[k], languages, faults)],
              1, <<>>)

\* One match of  \$\$\s*CONTENT\s*\$\$  (loose) or  \$\$CONTENT\$\$  starting
\* at position i: its length, 0 when there is no match there.
BlockPatternAt(html, i, content, loose) ==
    LET lead == IF loose THEN SpaceRun(html, i + 2) ELSE 0
        ks   == {k \in 0..lead : StartsAt(html, i + 2 + k, content)}
        ends == {k \in ks :
                   LET after == i + 2 + k + Len(content)
                       trail == IF loose THEN SpaceRun(html, after) ELSE 0
                   IN  StartsAt(html, after + trail, <<"$", "$">>)}
    IN  IF ~StartsAt(html, i, <<"$", "$">>) \/ ends = {} THEN 0
        ELSE LET k     == CHOOSE x \in ends : \A y \in ends : x >= y
                 after == i + 2 + k + Len(content)
                 trail == IF loose THEN SpaceRun(html, after) ELSE 0
             IN  2 + k + Len(content) + trail + 2

\* processedHtml.replace(pattern, rendered) for a global block pattern
RECURSIVE ReplaceBlockPattern(_, _, _, _, _)
ReplaceBlockPattern(html, i, content, loose, rendered) ==
    IF i > Len(html) THEN <<>>
    ELSE IF BlockPatternAt(html, i, content, loose) > 0
    THEN rendered \o ReplaceBlockPattern(html, i + BlockPatternAt(html, i, content, loose),
                                         content, loose, rendered)
    ELSE <<html[i]>> \o ReplaceBlockPattern(html, i + 1, content, loose, rendered)

\* content.trim().replace(/\n/g, ' ')
CleanContent(content) ==
    [k \in 1..Len(Trim(content)) |->
        IF Trim(content)[k] = "\n" THEN " " ELSE Trim(content)[k]]

\* the body of the first loop of processMathExpressions for one expression
\* the third replace, of the pattern of the cleaned content
SubstituteClean(html, content, rendered) ==
    IF Includes(content, <<"\n">>)
    THEN ReplaceBlockPattern(html, 1, CleanContent(content), TRUE, rendered)
    ELSE html

SubstituteBlock(html, expr, faults) ==
    IF KatexThrows(TRUE, faults) THEN html
    ELSE SubstituteClean(
           ReplaceBlockPattern(
             ReplaceBlockPattern(html, 1, expr.content, TRUE,
                                 KatexMarkup(expr.content, TRUE)),
             1, expr.content, FALSE, KatexMarkup(expr.content, TRUE)),
           expr.content, KatexMarkup(expr.content, TRUE))

\* the body of the second loop of processMathExpressions for one expression
SubstituteInline(html, expr, faults) ==
    IF KatexThrows(FALSE, faults) THEN html
    ELSE ReplaceAll(html, 1, <<"$">> \o expr.content \o <<"$">>,
                    KatexMarkup(expr.content, FALSE))

RECURSIVE SubstituteAll(_, _, _, _)
SubstituteAll(html, exprs, faults, inline) ==
    IF exprs = <<>> THEN html
    ELSE SubstituteAll(IF inline THEN SubstituteInline(html, Head(exprs), faults)
                       ELSE SubstituteBlock(html, Head(exprs), faults),
                       Tail(exprs), faults, inline)

\* expressions.filter(e => e.type === type)
FilterType(exprs, type) == SelectSeq(exprs, LAMBDA e : e.type = type)

processMathExpressions(html, expressions, faults) ==
    SubstituteAll(SubstituteAll(html, FilterType(expressions, "block"), faults, FALSE),
                  FilterType(expressions, "inline"), faults, TRUE)

\* the expressions in the order of the list
ListOrder(exprs) == exprs

\* the order in which the two loops of processMathExpressions take the
\* expressions: blockExpressions, then inlineExpressions
PassOrder(exprs) == FilterType(exprs, "block") \o FilterType(exprs, "inline")

\* the body of the loop that takes expression expr
SubstituteOne(html, expr, faults) ==
    IF expr.type = "block" THEN SubstituteBlock(html, expr, faults)
    ELSE SubstituteInline(html, expr, faults)

\* what renderToHtml does with what marked.parser gave
SubstituteMath(parsed, expressions, faults) ==
    IF parsed.thrown THEN parsed
    ELSE IF Len(expressions) > 0
    THEN Returned(processMathExpressions(parsed.val, expressions, faults))
    ELSE parsed

renderToHtml(ast, languages, faults) ==
    SubstituteMath(markedParserA(ast.children, languages, faults),
                   ast.mathExpressions, faults)

\* the body of the try block of render
renderBodyA(markdown, languages, faults) ==
    renderToHtml(parseMarkdown(markdown), languages, faults)

\* a render without its catch clause, to tell the claims about errors from
RethrowA(result) == result

\* catch (error) { return '<div class="error">Error rendering markdown: ...</div>' }
CatchA(result) ==
    IF result.thrown
    THEN Returned(<<"<div class=\"error\">", "Error rendering markdown: ">>
                    \o result.val \o <<"</div>">>)
    ELSE result

renderA(markdown, languages, faults) ==
    IF markdown = <<>> THEN Returned(<<>>)
    ELSE CatchA(renderBodyA(markdown, languages, faults))

(***************************************************************************)
(* The process: one of the two modules is loaded; renderer instances are   *)
(* constructed, languages are imported in the background, and render and   *)
(* the file entrypoints are called.                                        *)
(***************************************************************************)
VARIABLES
    impl,            \* the module the process loaded: "A" or "B"
    instances,       \* the renderer instances, in construction order: their options
    markedSelf,      \* B: the instance whose customRenderer marked dispatches to
    markedUses,      \* the marked.use() registrations made on the process-wide marked
    prismLanguages,  \* Prism.languages: the names of the registered grammars
    pendingImports,  \* B: the languages whose import() has not settled
    pendingRead,     \* readMarkdownFromFile calls whose read has not settled
    last,            \* the call that completed last, with what it gave its caller
    memo,            \* an earlier render call, kept to compare a later one with
    arg,             \* the input of the operation a function-level run applies
    ret              \* what that operation gave: NoResult until it is applied

vars == <<impl, instances, markedSelf, markedUses, prismLanguages, pendingImports,
          pendingRead, last, memo, arg, ret>>

\* the grammars the module imports statically
StaticLanguages == {"markup", "clike", "javascript"}

\* loadEssentialLanguages: essentialLanguages
EssentialLanguages ==
    {"javascript", "css", "markup", "clike", "c", "python", "java", "csharp"}

\* the documents the process renders
Documents ==
    { <<>>,
      <<" ", "\n">>,
      <<"a">>,
      <<"$", "a", "$">>,
      <<Fence, "mermaid", "\n", "g", "\n", Fence>>,
      <<Fence, "python", "\n", "<", "\n", Fence>>,
      <<Fence, "javascript", "\n", "x", "\n", Fence>>,
      <<Fence, "unknownlang", "\n", "<", "\n", Fence>> }

\* the language tags the documents use: the registration of any other grammar
\* changes no render of the model, and is left out of the state
DocumentLanguages == {"mermaid", "python", "javascript", "unknownlang"}

\* what the collaborators do during one call: a document without code calls no
\* highlighter, one without "$" no math formatter
FaultCases(markdown) ==
    {{}} \cup (IF Includes(markdown, <<Fence>>) THEN {{"prism"}} ELSE {})
         \cup (IF Includes(markdown, <<"$">>) THEN {{"katexInline", "katexDisplay"}} ELSE {})

\* what Math.random() gives the calls of one render: drawn for a document
\* with a diagram only
RandomIds == {"r1", "r2"}
RandomDraws(markdown) ==
    IF Includes(markdown, <<"mermaid">>) THEN {<<x>> : x \in RandomIds}
    ELSE {<<"r1">>}

\* the file system: doc.md holds some document, gone.md cannot be read
Paths == {"doc.md", "gone.md"}
Readable(path) == path = "doc.md"

NoResult == [done |-> FALSE, faults |-> {}, out |-> Returned(<<>>)]

NoCall == [op |-> "none", inst |-> 0, input |-> <<>>, path |-> "", faults |-> {},
           readOk |-> TRUE, out |-> Returned(<<>>)]

\* the values Prism.languages takes in the model
LanguageStates ==
    {StaticLanguages \cup x : x \in SUBSET (EssentialLanguages \cap DocumentLanguages)}

\* render of each module on each document, for each value of what it reads
\* (the renders of the model, computed once)
RendersA ==
    [d \in Documents |-> [l \in LanguageStates |-> [f \in FaultCases(d) |->
        renderA(d, l, f)]]]

RendersB ==
    [d \in Documents |-> [h \in BOOLEAN |-> [l \in LanguageStates |->
        [f \in FaultCases(d) |-> [r \in RandomDraws(d) |-> renderB(d, h, l, f, r)]]]]]

\* the try block of render, likewise
BodiesA ==
    [d \in Documents |-> [l \in LanguageStates |-> [f \in FaultCases(d) |->
        renderBodyA(d, l, f)]]]

BodiesB ==
    [d \in Documents |-> [h \in BOOLEAN |-> [l \in LanguageStates |->
        [f \in FaultCases(d) |-> [r \in RandomDraws(d) |->
            renderBodyB(d, h, l, f, r)]]]]]

\* what the try block of this.render(markdown) comes to in the current state
BodyNow(markdown, faults, rnds) ==
    IF impl = "A" THEN BodiesA[markdown][prismLanguages][faults]
    ELSE BodiesB[markdown][instances[markedSelf].highlight][prismLanguages][faults][rnds]

\* this.render(markdown) in the current state of the process
RenderNow(markdown, faults, rnds) ==
    IF impl = "A" THEN RendersA[markdown][prismLanguages][faults]
    ELSE RendersB[markdown][instances[markedSelf].highlight][prismLanguages][faults][rnds]

CallRecord(op, i, markdown, path, faults, readOk, out) ==
    [op |-> op, inst |-> i, input |-> markdown, path |-> path, faults |-> faults,
     readOk |-> readOk, out |-> out]

\* the error of a failed fs read: Node names the path in its message
ReadError(path) == <<"ENOENT: no such file or directory, open ", path>>

\* a file entrypoint that swallows the failure and returns no content
ReadFailureSwallowed(path) == Returned(<<>>)

\* catch (error) of the file entrypoints: B wraps the message, A rethrows
ReadFailure(path) ==
    IF impl = "B" THEN Thrown(<<"Error reading markdown file: ">> \o ReadError(path))
    ELSE Thrown(ReadError(path))

\* the body of a file entrypoint once fs has answered; out is what
\* this.render(contents) gives
FileCall(op, i, path, contents, faults, out) ==
    IF Readable(path)
    THEN CallRecord(op, i, contents, path, faults, TRUE, out)
    ELSE CallRecord(op, i, <<>>, path, {}, FALSE, ReadFailure(path))

Init ==
    /\ impl \in {"A", "B"}
    /\ instances = <<>>
    /\ markedSelf = 0
    /\ markedUses = 0
    /\ prismLanguages = StaticLanguages
    /\ pendingImports = {}
    /\ pendingRead = {}
    /\ last = NoCall
    /\ memo = NoCall
    /\ arg = <<>>
    /\ ret = NoResult

\* the marked.use() calls of B's constructor: options, hooks, footnotes and
\* the extensions
ConstructorUses == 4

\* the marked.use() registrations after this.render(markdown): renderToHtml of
\* A registers the footnote plugin again on every call that reaches it
UsesAfterRender(markdown) ==
    IF impl = "A" /\ markdown # <<>> THEN markedUses + 1 ELSE markedUses

\* the model follows the registrations of renders up to MaxRenderUses
RenderAllowed(markdown) ==
    UsesAfterRender(markdown) = markedUses \/ markedUses < MaxRenderUses

\* the options a caller passes to the constructor: none, or the highlight flag
OptionSets == {<<>>} \cup {[highlight |-> h] : h \in BOOLEAN}

\* this.options = { highlight: true, ...options }
MergeOptions(options) ==
    [highlight |-> IF "highlight" \in DOMAIN options THEN options.highlight ELSE TRUE]

\* new MarkdownRenderer(options)
Construct(options) ==
    /\ Len(instances) < MaxInstances
    /\ instances' = Append(instances, MergeOptions(options))
    /\ markedSelf' = IF impl = "B" THEN Len(instances) + 1 ELSE markedSelf
    /\ markedUses' = IF impl = "B" THEN markedUses + ConstructorUses ELSE markedUses
    /\ pendingImports' =
          IF impl = "B"
          THEN pendingImports \cup ((EssentialLanguages \cap DocumentLanguages)
                                      \ prismLanguages)
          ELSE pendingImports
    /\ UNCHANGED <<impl, prismLanguages, pendingRead, last, memo, arg, ret>>

\* import('prismjs/components/prism-' + lang + '.js') resolves: the grammar
\* registers itself
ImportResolves(lang) ==
    /\ lang \in pendingImports
    /\ prismLanguages' = prismLanguages \cup {lang}
    /\ pendingImports' = pendingImports \ {lang}
    /\ UNCHANGED <<impl, instances, markedSelf, markedUses, pendingRead, last, memo, arg, ret>>

\* ... or rejects: .catch(() => {})
ImportRejects(lang) ==
    /\ lang \in pendingImports
    /\ pendingImports' = pendingImports \ {lang}
    /\ UNCHANGED <<impl, instances, markedSelf, markedUses, prismLanguages, pendingRead, last, memo, arg, ret>>

\* renderer.render(markdown), on any of the instances
Render(markdown, faults, rnds) ==
    /\ RenderAllowed(markdown)
    /\ \E i \in 1..Len(instances) :
          last' = CallRecord("render", i, markdown, "", faults, TRUE,
                             RenderNow(markdown, faults, rnds))
    /\ markedUses' = UsesAfterRender(markdown)
    /\ UNCHANGED <<impl, instances, markedSelf, prismLanguages, pendingImports,
                   pendingRead, memo, arg, ret>>

\* the caller keeps the result of the render call it just made
Remember ==
    /\ last.op = "render"
    /\ memo = NoCall
    /\ memo' = last
    /\ UNCHANGED <<impl, instances, markedSelf, markedUses, prismLanguages, pendingImports,
                   pendingRead, last, arg, ret>>

\* readMarkdownFromFileSync(filePath), on any of the instances: the read gives
\* the contents or fails
ReadFileSync(path, contents, faults, rnds) ==
    /\ impl = "B"
    /\ \E i \in 1..Len(instances) :
          last' = FileCall("readFileSync", i, path, contents, faults,
                           RenderNow(contents, faults, rnds))
    /\ markedUses' = UsesAfterRender(contents)
    /\ UNCHANGED <<impl, instances, markedSelf, prismLanguages, pendingImports,
                   pendingRead, memo, arg, ret>>

\* readMarkdownFromFile(filePath): the call suspends at the read ...
StartRead(i, path) ==
    /\ i \in 1..Len(instances)
    /\ pendingRead = {}
    /\ pendingRead' = {[inst |-> i, path |-> path]}
    /\ UNCHANGED <<impl, instances, markedSelf, markedUses, prismLanguages, pendingImports,
                   last, memo, arg, ret>>

\* ... and goes on when the read has settled
FinishRead(r, contents, faults, rnds) ==
    /\ r \in pendingRead
    /\ RenderAllowed(contents)
    /\ pendingRead' = pendingRead \ {r}
    /\ last' = FileCall("readFile", r.inst, r.path, contents, faults,
                         RenderNow(contents, faults, rnds))
    /\ markedUses' = UsesAfterRender(contents)
    /\ UNCHANGED <<impl, instances, markedSelf, prismLanguages, pendingImports, memo, arg, ret>>

\* the contents a read can give: any document for a readable path
Contents(path) == IF Readable(path) THEN Documents ELSE {<<>>}

Next ==
    \/ \E o \in OptionSets : Construct(o)
    \/ \E l \in EssentialLanguages : ImportResolves(l)
    \/ \E l \in EssentialLanguages : ImportRejects(l)
    \/ \E d \in Documents :
          \E f \in FaultCases(d), r \in RandomDraws(d) : Render(d, f, r)
    \/ \E p \in Paths : \E d \in Contents(p) :
          \E f \in FaultCases(d), r \in RandomDraws(d) : ReadFileSync(p, d, f, r)
    \/ \E i \in 1..MaxInstances, p \in Paths : StartRead(i, p)
    \/ \E r \in pendingRead : \E d \in Contents(r.path) :
          \E f \in FaultCases(d), rn \in RandomDraws(d) : FinishRead(r, d, f, rn)

Spec == Init /\ [][Next]_vars

\* the process with a caller that compares two render calls
NextCompare ==
    \/ \E o \in OptionSets : Construct(o)
    \/ \E l \in EssentialLanguages : ImportResolves(l)
    \/ \E l \in EssentialLanguages : ImportRejects(l)
    \/ \E d \in Documents :
          \E f \in FaultCases(d), r \in RandomDraws(d) : Render(d, f, r)
    \/ Remember

SpecCompare == Init /\ [][NextCompare]_vars

(***************************************************************************)
(* Properties of the process.                                              *)
(***************************************************************************)
ErrorPrefix == <<"Error rendering markdown: ">>

\* C1: render never throws, whatever the input and whatever the highlighter
\* and the math formatter do: every render call returns HTML, and when an
\* exception was raised inside its try block the HTML returned holds the
\* error message.
C1_RenderNeverThrows ==
    [][(last' # last /\ last'.op = "render") =>
          /\ ~last'.out.thrown
          /\ \A r \in RandomDraws(last'.input) :
                BodyNow(last'.input, last'.faults, r).thrown
                  => Includes(last'.out.val,
                       ErrorPrefix \o BodyNow(last'.input, last'.faults, r).val)]_vars

\* a render call during which the highlighter threw and the exception reached
\* the catch clause of render
C1_Witness ==
    /\ last.op = "render"
    /\ "prism" \in last.faults
    /\ ~last.out.thrown
    /\ Includes(last.out.val, ErrorPrefix \o <<"prism failed">>)

\* C2: render of an empty or whitespace-only input returns the fixed
\* "no content" placeholder fragment.
C2_BlankGivesPlaceholder ==
    (last.op = "render" /\ Trim(last.input) = <<>>) => last.out = Returned(NoContent)

\* C3: two render calls on the same instance with the same input and the same
\* behaviour of the highlighter and the math formatter return the same HTML,
\* whatever happened between them.
C3_Deterministic ==
    (/\ memo.op = "render" /\ last.op = "render"
     /\ memo.inst = last.inst
     /\ memo.input = last.input
     /\ memo.faults = last.faults) => memo.out = last.out

\* the fenced code blocks of the documents: language tag and code
IsCodeDocument(d) ==
    /\ Len(d) = 6
    /\ d[1] = Fence /\ d[3] = "\n" /\ d[5] = "\n" /\ d[6] = Fence
    /\ d[2] # "mermaid"

\* C6: for a fenced code block in a language the highlighter does not know,
\* or on which the highlighter throws, render returns a pre/code element that
\* holds the HTML-escaped code and the language class.
C6_CodeFallback ==
    (/\ last.op = "render"
     /\ IsCodeDocument(last.input)
     /\ (last.input[2] = "unknownlang" \/ "prism" \in last.faults))
    => /\ ~last.out.thrown
       /\ Includes(last.out.val,
             <<"<pre><code">> \o LangClass(last.input[2]) \o <<">">>
                \o EscapeHtml(<<last.input[4]>>) \o <<"</code></pre>">>)

C11_HighlightOption ==
    [][/\ \A o \in OptionSets :
             Construct(o) =>
                instances'[Len(instances')].highlight
                   = (IF o = <<>> THEN TRUE ELSE o.highlight)
       /\ (last' # last /\ last'.op = "render" /\ IsCodeDocument(last'.input)) =>
             IF ~instances[last'.inst].highlight
             THEN /\ ~Includes(last'.out.val, <<"<span class=\"token\">">>)
                  /\ Includes(last'.out.val,
                        <<"<pre><code">> \o LangClass(last'.input[2]) \o <<">">>
                           \o EscapeHtml(<<last'.input[4]>>) \o <<"</code></pre>">>)
             ELSE (last'.input[2] \in prismLanguages /\ "prism" \notin last'.faults) =>
                    Includes(last'.out.val,
                      <<"<pre><code">> \o LangClass(last'.input[2]) \o <<">">>
                         \o PrismMarkup(<<last'.input[4]>>, last'.input[2])
                         \o <<"</code></pre>">>)]_vars

\* C13: a render call leaves the process-wide state as it found it: the
\* registrations of the Markdown engine, the renderer it dispatches to and
\* the language table of the highlighter.
C13_RenderKeepsProcessState ==
    [][(last' # last /\ last'.op = "render") =>
          /\ markedUses' = markedUses
          /\ markedSelf' = markedSelf
          /\ prismLanguages' = prismLanguages]_vars

\* C14: a render through an instance applies the options of that instance,
\* whatever other instances were constructed before the call: it returns what
\* the renderer gives for the instance's own highlight flag.
C14_OptionsBelongToInstance ==
    [][(last' # last /\ last'.op = "render") =>
          \E r \in RandomDraws(last'.input) :
             last'.out =
                IF impl = "A"
                THEN RendersA[last'.input][prismLanguages][last'.faults]
                ELSE RendersB[last'.input][instances[last'.inst].highlight]
                             [prismLanguages][last'.faults][r]]_vars

(***************************************************************************)
(* Function-level runs: one module is loaded, one instance is constructed  *)
(* with the default options, an input is drawn and one operation is        *)
(* applied to it.                                                          *)
(***************************************************************************)
\* this.render(markdown) in the current state of the process, computed
RenderDirect(markdown, faults, rnds) ==
    IF impl = "A" THEN renderA(markdown, prismLanguages, faults)
    ELSE renderB(markdown, instances[markedSelf].highlight, prismLanguages, faults, rnds)

InitWith(impls, inputs) ==
    /\ impl \in impls
    /\ instances = <<MergeOptions(<<>>)>>
    /\ markedSelf = (IF impl = "B" THEN 1 ELSE 0)
    /\ markedUses = (IF impl = "B" THEN ConstructorUses ELSE 0)
    /\ prismLanguages = StaticLanguages
    /\ pendingImports = {}
    /\ pendingRead = {}
    /\ last = NoCall
    /\ memo = NoCall
    /\ arg \in inputs
    /\ ret = NoResult

Result(faults, out) == [done |-> TRUE, faults |-> faults, out |-> out]

\* renderer.render(arg)
RenderArg(faults) ==
    /\ ~ret.done
    /\ ret' = Result(faults, RenderDirect(arg, faults, <<"r1">>))
    /\ markedUses' = UsesAfterRender(arg)
    /\ UNCHANGED <<impl, instances, markedSelf, prismLanguages, pendingImports,
                   pendingRead, last, memo, arg>>

\* ---- math: texts over "$", a letter, a blank and a line break
MathAlphabet == {"$", "a", " ", "\n"}
MathTexts == TextsUpTo(MathAlphabet, MaxMathLen)
MathFaultCases == {{}, {"katexInline", "katexDisplay"}}

InitMath == InitWith({"A", "B"}, MathTexts)
NextMath == \E f \in MathFaultCases : RenderArg(f)
SpecMath == InitMath /\ [][NextMath]_vars

\* ---- task lists: documents of task lines
TaskLabels == {<<"a">>, <<"b">>, <<"a", " ", "b">>}
TaskLines == [marker : ListMarkers, letter : CheckboxLetters, label : TaskLabels]
TaskLineText(line) == <<line.marker, " ", "[", line.letter, "]", " ">> \o line.label

RECURSIVE JoinLines(_)
JoinLines(texts) ==
    IF texts = <<>> THEN <<>>
    ELSE IF Len(texts) = 1 THEN texts[1]
    ELSE texts[1] \o <<"\n">> \o JoinLines(Tail(texts))

TaskText(lines) == JoinLines([k \in 1..Len(lines) |-> TaskLineText(lines[k])])
TaskDocuments == UNION {[1..n -> TaskLines] : n \in 1..MaxTaskLines}

\* renderer.render of the text of the task lines drawn
RenderTaskLines ==
    /\ ~ret.done
    /\ ret' = Result({}, RenderDirect(TaskText(arg), {}, <<"r1">>))
    /\ markedUses' = UsesAfterRender(TaskText(arg))
    /\ UNCHANGED <<impl, instances, markedSelf, prismLanguages, pendingImports,
                   pendingRead, last, memo, arg>>

InitTask == InitWith({"B"}, TaskDocuments)
NextTask == RenderTaskLines
SpecTask == InitTask /\ [][NextTask]_vars

\* ---- tables: a header row and a body row, as marked hands them to the
\* postprocess hook
SeparatorMarkers == {":---", ":---:", "---:", "---"}
TableWords == {"Header 2", "Right", "x"}
Tables ==
    UNION {[align : [1..n -> SeparatorMarkers], header : [1..n -> TableWords],
            body : [1..n -> TableWords]] : n \in 1..MaxColumns}

\* the alignment a separator marker asks for
MarkerAlign(marker) ==
    CASE marker = ":---" -> "left"
      [] marker = ":---:" -> "center"
      [] marker = "---:" -> "right"
      [] OTHER -> "none"

\* marked's tablecell renderer: the cell of an aligned column carries an
\* align attribute, any other cell is bare
TableCell(tag, align, word) ==
    <<IF align = "none" THEN "<" \o tag \o ">"
      ELSE "<" \o tag \o " align=\"" \o align \o "\">">>
        \o <<word, "</" \o tag \o ">", "\n">>

TableRow(tag, aligns, words) ==
    <<"<tr>", "\n">>
      \o Concat([k \in 1..Len(words) |-> TableCell(tag, MarkerAlign(aligns[k]), words[k])])
      \o <<"</tr>", "\n">>

\* marked's table renderer
TableHtml(t) ==
    <<"<table>", "\n", "<thead>", "\n">> \o TableRow("th", t.align, t.header)
      \o <<"</thead>", "\n", "<tbody>">> \o TableRow("td", t.align, t.body)
      \o <<"</tbody>", "</table>", "\n">>

\* marked.parse(table): the HTML of the table goes through the postprocess hook
PostprocessTable ==
    /\ ~ret.done
    /\ ret' = Result({}, Returned(postprocess(TableHtml(arg))))
    /\ UNCHANGED <<impl, instances, markedSelf, markedUses, prismLanguages, pendingImports,
                   pendingRead, last, memo, arg>>

InitTable == InitWith({"B"}, Tables)
NextTable == PostprocessTable
SpecTable == InitTable /\ [][NextTable]_vars

\* ---- diagrams: documents of fenced blocks in the diagram language
DiagramSources == {<<"g">>, <<"<">>, <<"g", ">", "g">>}
DiagramGaps == {<<"\n">>, <<"\n", "\n">>}
DiagramDocuments ==
    UNION {[sources : [1..n -> DiagramSources], gap : DiagramGaps] : n \in 1..MaxDiagrams}

DiagramBlock(source) == <<Fence, "mermaid", "\n">> \o source \o <<"\n", Fence>>

RECURSIVE DiagramText(_, _)
DiagramText(sources, gap) ==
    IF Len(sources) = 1 THEN DiagramBlock(sources[1])
    ELSE DiagramBlock(sources[1]) \o gap \o DiagramText(Tail(sources), gap)

\* what Math.random() gives the calls of one render of such a document: one
\* draw for each token the lexer can make of it
DiagramDraws == {<<a, b, c>> : a \in RandomIds, b \in RandomIds, c \in RandomIds}

\* renderer.render of the text of the diagram blocks drawn
RenderDiagrams(rnds) ==
    /\ ~ret.done
    /\ ret' = Result({}, RenderDirect(DiagramText(arg.sources, arg.gap), {}, rnds))
    /\ markedUses' = UsesAfterRender(DiagramText(arg.sources, arg.gap))
    /\ UNCHANGED <<impl, instances, markedSelf, prismLanguages, pendingImports,
                   pendingRead, last, memo, arg>>

InitDiagram == InitWith({"A", "B"}, DiagramDocuments)
NextDiagram == \E r \in DiagramDraws : RenderDiagrams(r)
SpecDiagram == InitDiagram /\ [][NextDiagram]_vars

\* ---- video links: a line that ends with @[youtube-thumbnail](url)
UrlAlphabet == {"youtube.com/watch?v=", "youtu.be/", "a", "&", "/"}
VideoLines ==
    [prefix : {<<>>, <<"a", " ">>},
     url    : TextsUpTo(UrlAlphabet, MaxUrlLen) \ {<<>>},
     rest   : {<<>>, <<"\n", "a">>}]

VideoText(line) ==
    line.prefix \o <<"@[youtube-thumbnail]", "(">> \o line.url \o <<")">> \o line.rest

\* videoLinks.tokenizer(src) on the text of the line drawn
ApplyVideoRule ==
    /\ ~ret.done
    /\ ret' = Result({}, videoLinksTokenizer(VideoText(arg)))
    /\ UNCHANGED <<impl, instances, markedSelf, markedUses, prismLanguages,
                   pendingImports, pendingRead, last, memo, arg>>

InitVideo == InitWith({"B"}, VideoLines)
NextVideo == ApplyVideoRule
SpecVideo == InitVideo /\ [][NextVideo]_vars

\* ---- raw HTML: a block of raw HTML behind a paragraph
HtmlBlocks ==
    { <<"<div>", "a", "</div>">>,
      <<"<div>", "$", "a", "$", "</div>">>,
      <<"<table>", "<tr>", "<th>", "x", "</th>", "</tr>", "</table>">>,
      <<"<table>", "\n", "<tr>", "<td>", "x", "</td>", "</tr>", "\n", "</table>">> }
HtmlIntros == {<<>>, <<"a">>, <<"$", "a", "$">>}
HtmlOutros == {<<>>, <<"a">>}
HtmlDocuments == [intro : HtmlIntros, block : HtmlBlocks, outro : HtmlOutros]

HtmlText(doc) ==
    (IF doc.intro = <<>> THEN <<>> ELSE doc.intro \o <<"\n", "\n">>)
      \o doc.block
      \o (IF doc.outro = <<>> THEN <<>> ELSE <<"\n", "\n">> \o doc.outro)

\* renderer.render of the text of the document drawn
RenderHtmlDocument(faults) ==
    /\ ~ret.done
    /\ ret' = Result(faults, RenderDirect(HtmlText(arg), faults, <<"r1">>))
    /\ markedUses' = UsesAfterRender(HtmlText(arg))
    /\ UNCHANGED <<impl, instances, markedSelf, prismLanguages, pendingImports,
                   pendingRead, last, memo, arg>>

InitHtml == InitWith({"A", "B"}, HtmlDocuments)
NextHtml == \E f \in MathFaultCases : RenderHtmlDocument(f)
SpecHtml == InitHtml /\ [][NextHtml]_vars

\* ---- math code blocks: a fenced block tagged math, katex or tex behind a
\* paragraph
MathCodes == {<<"a">>, <<"a", "\n", "a">>, <<"<">>, <<"$", "a", "$">>}
MathCodeIntros == {<<>>, <<"$", "a", "$">>}
MathCodeDocuments == [intro : MathCodeIntros, lang : MathLanguages, code : MathCodes]

MathCodeText(doc) ==
    (IF doc.intro = <<>> THEN <<>> ELSE doc.intro \o <<"\n", "\n">>)
      \o <<Fence, doc.lang, "\n">> \o doc.code \o <<"\n", Fence>>

\* renderer.render of the text of the document drawn
RenderMathCode(faults) ==
    /\ ~ret.done
    /\ ret' = Result(faults, RenderDirect(MathCodeText(arg), faults, <<"r1">>))
    /\ markedUses' = UsesAfterRender(MathCodeText(arg))
    /\ UNCHANGED <<impl, instances, markedSelf, prismLanguages, pendingImports,
                   pendingRead, last, memo, arg>>

InitMathCode == InitWith({"A", "B"}, MathCodeDocuments)
NextMathCode == \E f \in MathFaultCases : RenderMathCode(f)
SpecMathCode == InitMathCode /\ [][NextMathCode]_vars

\* ---- the math substitution pass, one loop iteration at a time: arg is the
\* HTML and the expression list handed to processMathExpressions, ret.out the
\* HTML so far and the calls of katex.renderToString made so far
PassExpressions ==
    {MathExpr("block", <<"a">>, FALSE), MathExpr("inline", <<"a">>, FALSE),
     MathExpr("block", <<"b">>, TRUE)}
PassLists == UNION {TextsOfLen(PassExpressions, n) : n \in 1..MaxExpressions}
PassHtmls ==
    { <<"<p>", "$", "$", "a", "$", "$", "</p>">>,
      <<"<p>", "$", "a", "$", " ", "$", "$", "a", "$", "$", "</p>">>,
      <<"<p>", "$", "a", "$", "</p>", "<katex-display>", "b", "</katex>">> }
PassFaultCases == SUBSET {"katexInline", "katexDisplay"}

KatexCall(expr) == [displayMode |-> expr.type = "block", content |-> expr.content]

InitPass ==
    /\ impl = "A"
    /\ instances = <<MergeOptions(<<>>)>>
    /\ markedSelf = 0
    /\ markedUses = 0
    /\ prismLanguages = StaticLanguages
    /\ pendingImports = {}
    /\ pendingRead = {}
    /\ last = NoCall
    /\ memo = NoCall
    /\ arg \in [html : PassHtmls, expressions : PassLists]
    /\ \E f \in PassFaultCases :
          ret = [done |-> FALSE, faults |-> f,
                 out |-> [html |-> arg.html, calls |-> <<>>]]

\* one iteration of the loops of processMathExpressions: the next expression
\* is formatted and, unless the formatter threw, substituted
FormatNextExpression ==
    /\ ~ret.done
    /\ ret' = [done   |-> Len(ret.out.calls) + 1 = Len(arg.expressions),
               faults |-> ret.faults,
               out    |-> [html  |-> SubstituteOne(ret.out.html,
                                       PassOrder(arg.expressions)[Len(ret.out.calls) + 1],
                                       ret.faults),
                           calls |-> Append(ret.out.calls,
                                       KatexCall(PassOrder(arg.expressions)
                                                   [Len(ret.out.calls) + 1]))]]
    /\ UNCHANGED <<impl, instances, markedSelf, markedUses, prismLanguages,
                   pendingImports, pendingRead, last, memo, arg>>

NextPass == FormatNextExpression
SpecPass == InitPass /\ [][NextPass]_vars

\* ---- the annotator's scan of the content of a paragraph or text token
ScanText ==
    /\ ~ret.done
    /\ ret' = Result({}, extractMathFromText(arg))
    /\ UNCHANGED <<impl, instances, markedSelf, markedUses, prismLanguages,
                   pendingImports, pendingRead, last, memo, arg>>

\* the short texts, and longer ones that hold spans of both kinds
ScanTexts ==
    MathTexts \cup
    { <<"$", "a", "$", " ", "$", "$", "a", "$", "$">>,
      <<"$", "$", "a", "$", "$", " ", "a", " ", "$", "a", "$">>,
      <<"$", "$", "a", "$", "$", " ", "$", "a", "$">>,
      <<"$", "$", "a", "$", "a", "$", "a", "$", "a", "$", "$">>,
      <<"$", "$", "a", "\n", "a", "$", "$", "\n", "$", "a", " ", "$">> }

InitScan == InitWith({"A"}, ScanTexts)
NextScan == ScanText
SpecScan == InitScan /\ [][NextScan]_vars

\* ---- code languages: documents of fenced blocks, written with language
\* tags in several letter cases or with none, the second one behind a paragraph
LanguageTags == {"mermaid", "Mermaid", "MERMAID", "python", "Python", "js", "JS", ""}
TaggedDocuments == UNION {[1..n -> LanguageTags] : n \in 1..MaxCodeBlocks}

TaggedBlock(tag) ==
    (IF tag = "" THEN <<Fence>> ELSE <<Fence, tag>>) \o <<"\n", "x", "\n", Fence>>

RECURSIVE TaggedText(_)
TaggedText(tags) ==
    IF Len(tags) = 1 THEN TaggedBlock(tags[1])
    ELSE TaggedBlock(tags[1]) \o <<"\n", "\n", "a", "\n">> \o TaggedText(Tail(tags))

\* parseMarkdown of the text of the document drawn: the codeLanguages of the tree
AnnotateLanguages ==
    /\ ~ret.done
    /\ ret' = Result({}, parseMarkdown(TaggedText(arg)).codeLanguages)
    /\ UNCHANGED <<impl, instances, markedSelf, markedUses, prismLanguages,
                   pendingImports, pendingRead, last, memo, arg>>

InitLanguages == InitWith({"A"}, TaggedDocuments)
NextLanguages == AnnotateLanguages
SpecLanguages == InitLanguages /\ [][NextLanguages]_vars

\* ---- rule priority: block inputs that the task rule, the video rule, both
\* or neither accept
RuleHeads ==
    {<<>>} \cup {<<m, " ", "[", c, "]", " ">> : m \in ListMarkers, c \in CheckboxLetters}
RuleBodies ==
    { <<"a">>,
      <<"a", " ", "@[youtube-thumbnail]", "(", "youtu.be/", "a", ")">>,
      <<"@[youtube-thumbnail]", "(", "youtu.be/", "a", ")">> }
RuleInputs == [head : RuleHeads, body : RuleBodies, rest : {<<>>, <<"\n", "a">>}]
RuleText(in) == in.head \o in.body \o in.rest

\* the block lexer's loop over the registered rules, on the input drawn
ApplyBlockRules ==
    /\ ~ret.done
    /\ ret' = Result({}, FirstMatch(Registered(BlockRules), RuleText(arg), {}))
    /\ UNCHANGED <<impl, instances, markedSelf, markedUses, prismLanguages,
                   pendingImports, pendingRead, last, memo, arg>>

InitRules == InitWith({"B"}, RuleInputs)
NextRules == ApplyBlockRules
SpecRules == InitRules /\ [][NextRules]_vars

\* ---- strikethrough and subscript: texts of "~", a letter and a blank
TildeTexts == TextsUpTo({"~", "x", " "}, MaxTildeLen)

\* subscript.tokenizer on the text drawn, and renderer.render of it
ApplySubscript ==
    /\ ~ret.done
    /\ ret' = Result({}, [token |-> subscriptTokenizer(arg),
                          html  |-> RenderDirect(arg, {}, <<"r1">>)])
    /\ markedUses' = UsesAfterRender(arg)
    /\ UNCHANGED <<impl, instances, markedSelf, prismLanguages, pendingImports,
                   pendingRead, last, memo, arg>>

InitTilde == InitWith({"B"}, TildeTexts)
NextTilde == ApplySubscript
SpecTilde == InitTilde /\ [][NextTilde]_vars

\* ---- subscript and superscript: the two rules on inputs of delimiters,
\* a letter, a line break and "$"
SpanAlphabet == {"~", "^", "a", "\n", "$"}
SpanInputs == [rule : {"subscript", "superscript"}, text : TextsUpTo(SpanAlphabet, MaxSpanLen)]

\* the tokenizer of the rule drawn, on the text drawn
ApplyDelimiterRule ==
    /\ ~ret.done
    /\ ret' = Result({}, Tokenize(arg.rule, arg.text, {}))
    /\ UNCHANGED <<impl, instances, markedSelf, markedUses, prismLanguages,
                   pendingImports, pendingRead, last, memo, arg>>

InitSpan == InitWith({"B"}, SpanInputs)
NextSpan == ApplyDelimiterRule
SpecSpan == InitSpan /\ [][NextSpan]_vars

\* ---- the inline math rule on the texts of the math specifications
ApplyMathInline(faults) ==
    /\ ~ret.done
    /\ ret' = Result(faults, mathInlineTokenizer(arg, faults))
    /\ UNCHANGED <<impl, instances, markedSelf, markedUses, prismLanguages,
                   pendingImports, pendingRead, last, memo, arg>>

InitInlineRule == InitWith({"B"}, MathTexts)
NextInlineRule == \E f \in MathFaultCases : ApplyMathInline(f)
SpecInlineRule == InitInlineRule /\ [][NextInlineRule]_vars

\* ---- the block math rule: two "$$" around lines of content, with or
\* without other text on the lines of the delimiters
BlockRuleInputs ==
    [before      : {<<>>, <<"a">>, <<" ">>},
     afterOpen   : {<<>>, <<"a">>},
     content     : {<<>>, <<"a">>, <<" ", "a", " ">>, <<"a", "\n", "a">>},
     beforeClose : {<<>>, <<"a">>},
     afterClose  : {<<>>, <<"a">>, <<" ">>, <<"\n", "a">>}]

BlockRuleText(in) ==
    in.before \o <<"$", "$">> \o in.afterOpen \o <<"\n">> \o in.content \o <<"\n">>
      \o in.beforeClose \o <<"$", "$">> \o in.afterClose

\* mathBlock.tokenizer on the text of the input drawn
ApplyMathBlock(faults) ==
    /\ ~ret.done
    /\ ret' = Result(faults, mathBlockTokenizer(BlockRuleText(arg), faults))
    /\ UNCHANGED <<impl, instances, markedSelf, markedUses, prismLanguages,
                   pendingImports, pendingRead, last, memo, arg>>

InitBlockRule == InitWith({"B"}, BlockRuleInputs)
NextBlockRule == \E f \in MathFaultCases : ApplyMathBlock(f)
SpecBlockRule == InitBlockRule /\ [][NextBlockRule]_vars

\* ---- the start probes: for each rule, an input the rule accepts or a
\* plain letter, behind a prefix and before a suffix of plain text
AllRules == BlockRules \o InlineRules

ProbeSample(rule) ==
    CASE rule = "videoLinks"  -> <<"@[youtube-thumbnail]", "(", "youtu.be/", "a", ")">>
      [] rule = "taskLists"   -> <<"-", " ", "[", "x", "]", " ", "a">>
      [] rule = "mathBlock"   -> <<"$", "$", "\n", "a", "\n", "$", "$">>
      [] rule = "subscript"   -> <<"~", "a", "~">>
      [] rule = "superscript" -> <<"^", "a", "^">>
      [] rule = "highlight"   -> <<"=", "=", "a", "=", "=">>
      [] rule = "mathInline"  -> <<"$", "a", "$">>
      [] rule = "emoji"       -> <<":", "x", ":">>

ProbeInputs ==
    [rule   : {AllRules[k] : k \in DOMAIN AllRules},
     prefix : {<<>>, <<"a">>, <<"a", "b">>, <<"a", "\n">>},
     sample : BOOLEAN,
     suffix : {<<>>, <<"\n", "a">>}]

ProbeText(in) ==
    in.prefix \o (IF in.sample THEN ProbeSample(in.rule) ELSE <<"a">>) \o in.suffix

\* the start probe of the rule drawn, on the text drawn
ApplyStart ==
    /\ ~ret.done
    /\ ret' = Result({}, Start(arg.rule, ProbeText(arg)))
    /\ UNCHANGED <<impl, instances, markedSelf, markedUses, prismLanguages,
                   pendingImports, pendingRead, last, memo, arg>>

InitProbe == InitWith({"B"}, ProbeInputs)
NextProbe == ApplyStart
SpecProbe == InitProbe /\ [][NextProbe]_vars

\* ---- the annotator on a whole document: the mathExpressions of the tree
AnnotateMath ==
    /\ ~ret.done
    /\ ret' = Result({}, parseMarkdown(arg).mathExpressions)
    /\ UNCHANGED <<impl, instances, markedSelf, markedUses, prismLanguages,
                   pendingImports, pendingRead, last, memo, arg>>

InitAnnotate == InitWith({"A"}, ScanTexts)
NextAnnotate == AnnotateMath
SpecAnnotate == InitAnnotate /\ [][NextAnnotate]_vars

\* ---- code and math: a fenced code block behind a paragraph
CodeIntros == {<<>>, <<"a">>, <<"$", "a", "$">>, <<"$", "$", "a", "$", "$">>}
CodeTexts == {<<"a">>, <<"<">>, <<"$", "a", "$">>, <<"$", "$", "a", "$", "$">>}
CodeDocuments == [intro : CodeIntros, lang : {"", "unknownlang", "javascript"},
                  code : CodeTexts]

CodeDocumentText(doc) ==
    (IF doc.intro = <<>> THEN <<>> ELSE doc.intro \o <<"\n", "\n">>)
      \o (IF doc.lang = "" THEN <<Fence>> ELSE <<Fence, doc.lang>>)
      \o <<"\n">> \o doc.code \o <<"\n", Fence>>

\* renderer.render of the text of the document drawn
RenderCodeDocument(faults) ==
    /\ ~ret.done
    /\ ret' = Result(faults, RenderDirect(CodeDocumentText(arg), faults, <<"r1">>))
    /\ markedUses' = UsesAfterRender(CodeDocumentText(arg))
    /\ UNCHANGED <<impl, instances, markedSelf, prismLanguages, pendingImports,
                   pendingRead, last, memo, arg>>

InitCode == InitWith({"A"}, CodeDocuments)
NextCode == \E f \in MathFaultCases : RenderCodeDocument(f)
SpecCode == InitCode /\ [][NextCode]_vars

\* ---- task-list normalization: documents of task lines written with or
\* without indentation, spacing and label
LooseTaskLines ==
    [indent : {<<>>, <<" ">>}, marker : {"-", "*"}, gap : {<<>>, <<" ">>},
     letter : {" ", "X"}, space : {<<>>, <<" ">>}, label : {<<>>, <<"a">>}]
LooseTaskLineText(line) ==
    line.indent \o <<line.marker>> \o line.gap \o <<"[", line.letter, "]">>
      \o line.space \o line.label
LooseTaskDocuments == UNION {[1..n -> LooseTaskLines] : n \in 1..MaxTaskLines}
LooseTaskText(lines) == JoinLines([k \in 1..Len(lines) |-> LooseTaskLineText(lines[k])])

\* preProcessMarkdown of the text of the task lines drawn
PreProcessTaskLines ==
    /\ ~ret.done
    /\ ret' = Result({}, preProcessMarkdown(LooseTaskText(arg)))
    /\ UNCHANGED <<impl, instances, markedSelf, markedUses, prismLanguages,
                   pendingImports, pendingRead, last, memo, arg>>

InitNormalize == InitWith({"B"}, LooseTaskDocuments)
NextNormalize == PreProcessTaskLines
SpecNormalize == InitNormalize /\ [][NextNormalize]_vars

(***************************************************************************)
(* Properties of the functions.                                            *)
(***************************************************************************)
DollarsOf(t) == {k \in 1..Len(t) : t[k] = "$"}

\* the text between the first two "$" of t
FirstSpan(t) ==
    LET i == CHOOSE k \in DollarsOf(t) : \A m \in DollarsOf(t) : k <= m
        j == CHOOSE k \in DollarsOf(t) \ {i} : \A m \in DollarsOf(t) \ {i} : k <= m
    IN  SubSeq(t, i + 1, j - 1)

\* t holds one inline math expression $c$ and no other "$": c is on one line
\* and is not blank
HasOneInline(t) ==
    /\ Cardinality(DollarsOf(t)) = 2
    /\ Trim(FirstSpan(t)) # <<>>
    /\ "\n" \notin {FirstSpan(t)[k] : k \in 1..Len(FirstSpan(t))}

\* t holds one block math expression $$c$$ and no other "$"
HasOneBlock(t) ==
    /\ Cardinality(DollarsOf(t)) = 4
    /\ \E i \in 1..Len(t), n \in 1..Len(t) :
          /\ StartsAt(t, i, <<"$", "$">>)
          /\ StartsAt(t, i + 2 + n, <<"$", "$">>)
          /\ Trim(SubSeq(t, i + 2, i + 1 + n)) # <<>>

BlockSpan(t) ==
    LET i == CHOOSE k \in DollarsOf(t) : \A m \in DollarsOf(t) : k <= m
        j == CHOOSE k \in DollarsOf(t) : \A m \in DollarsOf(t) : k >= m
    IN  SubSeq(t, i, j)

\* C4: when the formatter succeeds, the HTML of a text with an inline
\* expression $c$ holds the formatter's markup for c (as written, or trimmed)
\* and no longer the literal $c$.
C4_InlineMathFormatted ==
    (ret.done /\ "katexInline" \notin ret.faults /\ HasOneInline(arg)) =>
        LET c == FirstSpan(arg)
        IN  /\ ~ret.out.thrown
            /\ \/ Includes(ret.out.val, KatexMarkup(c, FALSE))
               \/ Includes(ret.out.val, KatexMarkup(Trim(c), FALSE))
            /\ ~Includes(ret.out.val, <<"$">> \o c \o <<"$">>)

\* C5: when the formatter throws, render raises nothing and the HTML holds
\* the expression as it was written, delimiters included.
C5_MathFallbackKeepsText ==
    (ret.done /\ ret.faults = {"katexInline", "katexDisplay"}) =>
        /\ HasOneInline(arg) =>
              /\ ~ret.out.thrown
              /\ Includes(ret.out.val, <<"$">> \o FirstSpan(arg) \o <<"$">>)
        /\ HasOneBlock(arg) =>
              /\ ~ret.out.thrown
              /\ Includes(ret.out.val, BlockSpan(arg))

\* the characters of a text that show: neither markup nor white space
IsInk(c) == c \in {"$", "a"}
Ink(t) == SelectSeq(t, IsInk)

\* block math is opened and never closed
IsUnterminated(t) ==
    /\ StartsWith(t, <<"$", "$">>)
    /\ DollarsOf(t) = {1, 2}

\* C7: for a text that opens block math with $$ and never closes it, every
\* rule declines: render does not throw and the HTML shows the text as it
\* was written, the $$ and what follows it.
C7_UnterminatedShownLiterally ==
    (ret.done /\ IsUnterminated(arg)) =>
        /\ ~ret.out.thrown
        /\ Ink(ret.out.val) = Ink(arg)
        /\ \A k \in 1..Len(ret.out.val) :
              ret.out.val[k] \notin {"<katex>", "<katex-display>"}

\* the text $$a has been rendered
C7_Witness ==
    /\ ret.done
    /\ arg = <<"$", "$", "a">>
    /\ Includes(ret.out.val, <<"$", "$", "a">>)

\* the task item the claim expects for a line
ExpectedTaskItem(line) ==
    <<"<li class=\"task-list-item\">", "<input type=\"checkbox\" ">>
      \o (IF line.letter = " " THEN <<>> ELSE <<"checked">>)
      \o <<" disabled>", " ">> \o line.label \o <<"</li>">>

\* C8: a document of task lines gives one task item per line, in the order
\* of the lines, each checked exactly when its checkbox letter is x or X.
C8_TaskItems ==
    ret.done =>
        ret.out = Returned(Concat([k \in 1..Len(arg) |-> ExpectedTaskItem(arg[k])]))

\* two task lines, an upper-case checked one and an unchecked one, have been
\* rendered
C8_Witness ==
    /\ ret.done
    /\ Len(arg) = 2
    /\ arg[1].letter = "X" /\ arg[1].marker = "*"
    /\ arg[2].letter = " "
    /\ Cardinality({k \in 1..Len(ret.out.val) : ret.out.val[k] = "checked"}) = 1

\* the alignment a cell of the final HTML carries
CellAlign(openTag) ==
    CASE openTag \in {"<th style=\"text-align:left\">", "<td style=\"text-align:left\">",
                      "<th align=\"left\">", "<td align=\"left\">"} -> "left"
      [] openTag \in {"<th style=\"text-align:center\">", "<td style=\"text-align:center\">",
                      "<th align=\"center\">", "<td align=\"center\">"} -> "center"
      [] openTag \in {"<th style=\"text-align:right\">", "<td style=\"text-align:right\">",
                      "<th align=\"right\">", "<td align=\"right\">"} -> "right"
      [] OTHER -> "none"

\* the opening tags of the cells of a row, in column order
CellTags(html, tag) ==
    SelectSeq(html, LAMBDA a :
        a \in {"<" \o tag \o ">"} \cup
              {"<" \o tag \o " align=\"" \o x \o "\">" : x \in {"left", "center", "right"}} \cup
              {"<" \o tag \o " style=\"text-align:" \o x \o "\">" :
                  x \in {"left", "center", "right"}})

\* C9: in the final HTML every cell of a column, header and body alike,
\* carries the alignment of the column's separator marker, whatever the
\* cells hold.
C9_ColumnAlignment ==
    ret.done =>
        \A k \in 1..Len(arg.align) :
            /\ CellAlign(CellTags(ret.out.val, "th")[k]) = MarkerAlign(arg.align[k])
            /\ CellAlign(CellTags(ret.out.val, "td")[k]) = MarkerAlign(arg.align[k])

\* the container the claim expects for a diagram source with identifier id
ExpectedDiagram(id, source) ==
    <<"<div class=\"mermaid\" id=\"mermaid-diagram-", id, "\">">>
      \o EscapeHtml(source) \o <<"</div>">>

\* C12: every diagram block is emitted as a container tagged for the diagram
\* engine that has an identifier of its own, distinct from that of every
\* other diagram block of the document, and holds the escaped source.
C12_DiagramContainers ==
    ret.done =>
        /\ ~ret.out.thrown
        /\ \E ids \in [1..Len(arg.sources) -> RandomIds] :
              /\ \A j, k \in 1..Len(arg.sources) : j # k => ids[j] # ids[k]
              /\ \A k \in 1..Len(arg.sources) :
                    Includes(ret.out.val, ExpectedDiagram(ids[k], arg.sources[k]))
\* the video id the claim describes: the characters that follow the first
\* "watch?v=" or "youtu.be/" that has any, up to the first "&", "?" or "/"
IdStarts(url) ==
    {k \in 1..(Len(url) - 1) :
        /\ url[k] \in {"youtube.com/watch?v=", "youtu.be/"}
        /\ url[k + 1] \notin {"&", "?", "/"}}

IdStops(url, k) == {m \in (k + 1)..Len(url) : url[m] \in {"&", "?", "/"}} \cup {Len(url) + 1}

ExpectedVideoId(url) ==
    LET k == CHOOSE x \in IdStarts(url) : \A y \in IdStarts(url) : x <= y
        m == CHOOSE x \in IdStops(url, k) : \A y \in IdStops(url, k) : x <= y
    IN  SubSeq(url, k + 1, m - 1)

C16_RawHtmlVerbatim ==
    ret.done =>
        /\ ~ret.out.thrown
        /\ Includes(ret.out.val, arg.block)

\* the pre/code element of a block in language lang around text
PreCode(lang, text) ==
    <<"<pre><code">> \o LangClass(lang) \o <<">">> \o text \o <<"</code></pre>">>

\* C17: a fenced block tagged math, katex or tex is recorded by the annotator
\* as a block expression with fromCodeBlock = true, and render emits the
\* display-mode markup of its text and no code block for it; when the
\* formatter throws, render emits the block as pre/code around its text.
C17_MathCodeBlock ==
    ret.done =>
        /\ impl = "A" =>
              \E k \in DOMAIN parseMarkdown(MathCodeText(arg)).mathExpressions :
                 parseMarkdown(MathCodeText(arg)).mathExpressions[k]
                    = MathExpr("block", arg.code, TRUE)
        /\ ~ret.out.thrown
        /\ IF KatexThrows(TRUE, ret.faults)
           THEN \/ Includes(ret.out.val, PreCode(arg.lang, arg.code))
                \/ Includes(ret.out.val, PreCode(arg.lang, EscapeHtml(arg.code)))
           ELSE /\ Includes(ret.out.val, KatexMarkup(arg.code, TRUE))
                /\ ~Includes(ret.out.val, <<"<pre><code">>)

\* the number of block expressions of a list
BlockCount(exprs) == Len(FilterType(exprs, "block"))

\* C18: in the substitution pass no block expression is formatted after an
\* inline expression, and an inline expression is formatted only when every
\* block expression of the list has been, whatever the order of the list; a
\* call in display mode is a call for a block expression, and the HTML the
\* pass ends with is the one processMathExpressions returns.
C18_BlocksBeforeInlines ==
    [][(ret'.out.calls # ret.out.calls) =>
          /\ ret'.out.calls[Len(ret'.out.calls)].displayMode
                => \A j \in 1..Len(ret.out.calls) : ret.out.calls[j].displayMode
          /\ ~ret'.out.calls[Len(ret'.out.calls)].displayMode
                => Len(ret.out.calls) >= BlockCount(arg.expressions)
          /\ \E k \in 1..Len(arg.expressions) :
                /\ KatexCall(arg.expressions[k]) = ret'.out.calls[Len(ret'.out.calls)]
                /\ ret'.out.html = SubstituteOne(ret.out.html, arg.expressions[k],
                                                 ret.faults)
          /\ ret'.done =>
                ret'.out.html = processMathExpressions(arg.html, arg.expressions,
                                                       ret.faults)]_vars

\* an inline record ahead of a block record in the list, the pass over: the
\* block expression was formatted first
C18_Witness ==
    /\ ret.done
    /\ arg.expressions = <<MathExpr("inline", <<"a">>, FALSE),
                           MathExpr("block", <<"a">>, FALSE)>>
    /\ ret.out.calls = <<KatexCall(MathExpr("block", <<"a">>, FALSE)),
                         KatexCall(MathExpr("inline", <<"a">>, FALSE))>>

\* text[i..j] is a "$...$" span: two "$" around one or more characters that
\* are neither "$" nor a line break
IsInlineSpan(text, i, j) ==
    /\ 1 <= i /\ i + 1 < j /\ j <= Len(text)
    /\ text[i] = "$" /\ text[j] = "$"
    /\ \A k \in (i + 1)..(j - 1) : text[k] \notin {"$", "\n"}

\* neither "$" of the span text[i..j] is half of a "$$"
IsSingleDollarSpan(text, i, j) ==
    /\ IsInlineSpan(text, i, j)
    /\ ~(i > 1 /\ text[i - 1] = "$")
    /\ ~(j < Len(text) /\ text[j + 1] = "$")

\* C19: in the records of one scanned text the block records stand before
\* the inline records, and every inline record is the content of a "$...$"
\* span of the text of which neither "$" touches another "$"; no record comes
\* from a span that shares a "$" with a "$$" delimiter.
C19_InlineFromSingleDollarSpans ==
    ret.done =>
        /\ \A j, k \in DOMAIN ret.out :
              (ret.out[j].type = "inline" /\ ret.out[k].type = "block") => k < j
        /\ \A k \in DOMAIN ret.out :
              ret.out[k].type = "inline" =>
                 \E i, j \in 1..Len(arg) :
                    /\ IsSingleDollarSpan(arg, i, j)
                    /\ ret.out[k].content = Trim(SubSeq(arg, i + 1, j - 1))
        /\ ret.out = BlockMathMatches(arg, 1)
                       \o SelectSeq(ret.out, LAMBDA e : e.type = "inline")

\* "$a$ $$a$$": the "$a$" between the delimiters is skipped, and the block
\* record stands before the record of the inline span that precedes it
C19_Witness ==
    /\ ret.done
    /\ arg = <<"$", "a", "$", " ", "$", "$", "a", "$", "$">>
    /\ ret.out = <<MathExpr("block", <<"a">>, FALSE), MathExpr("inline", <<"a">>, FALSE)>>

\* C20: codeLanguages holds the lower-cased tag of every tagged code block
\* that is not a diagram block and nothing else, each tag once, and never
\* the diagram tag, in whatever letter case the tags are written.
C20_CodeLanguages ==
    ret.done =>
        /\ \A j, k \in DOMAIN ret.out : ret.out[j] = ret.out[k] => j = k
        /\ \A k \in DOMAIN ret.out : ret.out[k] # "mermaid"
        /\ {ret.out[k] : k \in DOMAIN ret.out}
              = {ToLowerCase(arg[k]) : k \in DOMAIN arg} \ {"", "mermaid"}

\* the positions in the declaration list of the block rules that accept src
Accepting(src) ==
    {k \in 1..Len(BlockRules) : Tokenize(BlockRules[k], src, {}).type # "none"}

\* C21: when block rules accept the input, the token the lexer takes is the
\* one of the accepting rule that is declared earliest.
C21_FirstDeclaredWins ==
    (ret.done /\ Accepting(RuleText(arg)) # {}) =>
        ret.out = Tokenize(BlockRules[CHOOSE k \in Accepting(RuleText(arg)) :
                                         \A j \in Accepting(RuleText(arg)) : k <= j],
                           RuleText(arg), {})

\* text is "~~", a word without "~" and blanks, "~~"
IsStruckWord(text) ==
    /\ Len(text) >= 5
    /\ SubSeq(text, 1, 2) = <<"~", "~">>
    /\ SubSeq(text, Len(text) - 1, Len(text)) = <<"~", "~">>
    /\ \A k \in 3..(Len(text) - 2) : text[k] \notin {"~", " "}

\* C22: the subscript rule declines every input that begins with "~~", and
\* render gives a struck-out word ("~~x~~") as a del element, with no sub
\* element in the output.
C22_DoubledTildeIsStrikethrough ==
    ret.done =>
        /\ StartsWith(arg, <<"~", "~">>) => ret.out.token = NoMatch
        /\ IsStruckWord(arg) =>
              /\ ~ret.out.html.thrown
              /\ Includes(ret.out.html.val,
                           <<"<del>">> \o SubSeq(arg, 3, Len(arg) - 2) \o <<"</del>">>)
              /\ ~Includes(ret.out.html.val, <<"<sub>">>)

C22_Witness ==
    /\ ret.done
    /\ arg = <<"~", "~", "x", "~", "~">>
    /\ ret.out.token = NoMatch
    /\ ret.out.html = Returned(<<"<p>", "<del>", "x", "</del>", "</p>", "\n">>)

\* the delimiter and the element of a delimiter rule
DelimiterOf(rule) == IF rule = "subscript" THEN "~" ELSE "^"
ElementOf(rule) == IF rule = "subscript" THEN "sub" ELSE "sup"

\* t holds a "$...$" span
HasMathSpan(t) ==
    \E i, j \in 1..Len(t) :
        /\ i + 1 < j /\ t[i] = "$" /\ t[j] = "$"
        /\ \A k \in (i + 1)..(j - 1) : t[k] # "$"

\* text opens with the delimiter d and closes it n characters later, on the
\* same line, with no math span between
IsShortestSpan(text, d, n) ==
    /\ Len(text) >= n + 2 /\ n >= 1
    /\ text[1] = d /\ text[n + 2] = d
    /\ \A k \in 2..(n + 1) : text[k] \notin {d, "\n"}
    /\ ~HasMathSpan(SubSeq(text, 2, n + 1))

\* C23: the subscript (superscript) rule accepts exactly the inputs that open
\* with the shortest span of single "~" ("^") delimiters on one line; the
\* token takes that span and wraps its content in sub (sup); no math span is
\* taken along.
C23_ShortestSpanOnOneLine ==
    ret.done =>
        /\ ret.out # NoMatch <=>
              \E n \in 1..Len(arg.text) : IsShortestSpan(arg.text, DelimiterOf(arg.rule), n)
        /\ \A n \in 1..Len(arg.text) :
              IsShortestSpan(arg.text, DelimiterOf(arg.rule), n) =>
                 ret.out = HtmlToken(SubSeq(arg.text, 1, n + 2),
                             <<"<" \o ElementOf(arg.rule) \o ">">>
                               \o SubSeq(arg.text, 2, n + 1)
                               \o <<"</" \o ElementOf(arg.rule) \o ">">>)
        /\ ret.out # NoMatch => ~HasMathSpan(ret.out.raw)

\* text begins with "$", n characters other than "$" and a closing "$"
IsInlineMathInput(text, n) ==
    /\ n >= 1 /\ Len(text) >= n + 2
    /\ text[1] = "$" /\ text[n + 2] = "$"
    /\ \A k \in 2..(n + 1) : text[k] # "$"

\* C24: the inline math rule accepts exactly the inputs that begin with "$",
\* a content without "$" that is not empty, and a closing "$", and its token
\* takes that span; it declines an input that starts with "$$", one with no
\* content and one with no closing "$".
C24_InlineMathAcceptance ==
    ret.done =>
        /\ ret.out # NoMatch <=> \E n \in 1..Len(arg) : IsInlineMathInput(arg, n)
        /\ \A n \in 1..Len(arg) :
              IsInlineMathInput(arg, n) =>
                 /\ ret.out.type = "html"
                 /\ ret.out.raw = SubSeq(arg, 1, n + 2)
        /\ StartsWith(arg, <<"$", "$">>) => ret.out = NoMatch

C24_Witness ==
    /\ ret.done
    /\ arg = <<"$", "a", "$", "$">>
    /\ ret.out.type = "html"
    /\ ret.out.raw = <<"$", "a", "$">>

\* one of the two "$$" of the input has other text on its line
SharesLine(in) ==
    \/ Trim(in.before) # <<>> \/ Trim(in.afterOpen) # <<>>
    \/ Trim(in.beforeClose) # <<>>
    \/ Trim(SubSeq(in.afterClose, 1, LineEnd(in.afterClose) - 1)) # <<>>

\* C25: the block math rule accepts only an input whose two "$$" stand alone
\* on their lines around one or more lines of content, and the content it
\* hands to the formatter is trimmed; it declines when a "$$" shares its line
\* with other text.
C25_BlockMathAlone ==
    ret.done =>
        /\ SharesLine(arg) => ret.out = NoMatch
        /\ ret.out # NoMatch =>
              /\ arg.content # <<>>
              /\ ret.out.text =
                    <<"<div class=\"math math-block\">">>
                      \o (IF KatexThrows(TRUE, ret.faults)
                          THEN <<"$", "$">> \o Trim(arg.content) \o <<"$", "$">>
                          ELSE KatexMarkup(Trim(arg.content), TRUE))
                      \o <<"</div>">>

\* the 0-based indices of src at which the tokenizer of the rule accepts
MatchIndices(rule, src) ==
    {i \in 0..(Len(src) - 1) : Tokenize(rule, From(src, i + 1), {}).type # "none"}

\* C26: on an input with one place where the rule accepts, the start probe
\* of the rule returns the index of that place, the earliest at which the
\* rule matches; on an input where the rule accepts nowhere and its opening
\* does not occur, it returns -1.
C26_StartProbeIsEarliestIndex ==
    ret.done =>
        IF MatchIndices(arg.rule, ProbeText(arg)) = {}
        THEN ret.out = -1
        ELSE /\ ret.out \in MatchIndices(arg.rule, ProbeText(arg))
             /\ \A i \in MatchIndices(arg.rule, ProbeText(arg)) : ret.out <= i

\* C27: mathExpressions holds one record for each math span of the source:
\* none for a text without "$", one for a text with one inline span or one
\* block span.
C27_EachSpanRecordedOnce ==
    ret.done =>
        /\ DollarsOf(arg) = {} => ret.out = <<>>
        /\ HasOneInline(arg) => Len(ret.out) = 1
        /\ HasOneBlock(arg) => Len(ret.out) = 1

\* the "$$...$$" spans of text that the scan records as block expressions,
\* from position i on: the positions of their first and last character
RECURSIVE BlockSpans(_, _)
BlockSpans(text, i) ==
    IF i > Len(text) THEN {}
    ELSE IF StartsAt(text, i, <<"$", "$">>) /\ IndexFrom(text, <<"$", "$">>, i + 2) > 0
    THEN {<<i, IndexFrom(text, <<"$", "$">>, i + 2) + 1>>}
           \cup BlockSpans(text, IndexFrom(text, <<"$", "$">>, i + 2) + 2)
    ELSE BlockSpans(text, i + 1)

\* C28: every inline record of a scanned text is the content of a "$...$"
\* span that lies outside every "$$...$$" span recorded as a block
\* expression from the same text.
C28_InlineOutsideBlocks ==
    ret.done =>
        \A k \in DOMAIN ret.out :
            ret.out[k].type = "inline" =>
               \E i, j \in 1..Len(arg) :
                  /\ IsInlineSpan(arg, i, j)
                  /\ ret.out[k].content = Trim(SubSeq(arg, i + 1, j - 1))
                  /\ \A b \in BlockSpans(arg, 1) : j < b[1] \/ i > b[2]

\* C29: the element the tree renderer emits for a code block stands in what
\* render returns as it was emitted: the substitution pass leaves the code
\* alone, also when it reads like a recorded expression between delimiters.
C29_PassKeepsCode ==
    ret.done =>
        /\ ~ret.out.thrown
        /\ Includes(ret.out.val,
                     rendererCodeA(arg.code, arg.lang, prismLanguages, ret.faults).val)

\* a task line as normalization leaves it: its indentation, "- [c] " with
\* its checkbox letter, its label
NormalizedTaskLine(line) ==
    line.indent \o <<"-", " ", "[", line.letter, "]", " ">> \o line.label

\* C30: pre-processing gives each task line back as a line of its own, with
\* its indentation, its checkbox letter and its label; only the marker and
\* the spacing around the checkbox are rewritten, and the lines are as many
\* as before.
C30_NormalizationKeepsLines ==
    ret.done =>
        ret.out = JoinLines([k \in 1..Len(arg) |-> NormalizedTaskLine(arg[k])])

====
